---- MODULE Spec2Model ----
(***************************************************************************)
(* The in-process, memory-bounded, TTL-aware LRU cache of ChatNova:        *)
(* MemoryManagedCache (backend/app/core/enhanced_cache.py) and the key     *)
(* building / invalidation facade CacheManager (backend/app/core/cache.py).*)
(*                                                                         *)
(* Sizes are kept in bytes.  The code compares megabytes held in floats    *)
(* (bytes / 1024 / 1024); dividing by a power of two is exact, so every    *)
(* comparison of the code is the same comparison on bytes.                 *)
(***************************************************************************)
EXTENDS Integers, Sequences, FiniteSets, TLC

(***************************************************************************)
(* Configuration of the cache under study and bounds of the exploration.   *)
(***************************************************************************)
\* MemoryManagedCache(max_entries=...): the entry-count ceiling.
max_entries == 3
\* MemoryManagedCache(max_memory_mb=...): the memory budget, in megabytes.
max_memory_mb == 1
\* MemoryManagedCache(cleanup_interval_seconds=...).
cleanup_interval_seconds == 2
\* The "safety limit" of the eviction loop.  The code uses 1000 with caches of
\* up to max_entries = 5000 entries; it is scaled down with max_entries here
\* so that a cache can hold more entries than one eviction pass may remove.
SafetyLimit == 1
\* From a new cache, get() and set() are explored for MaxOps calls.
MaxOps == 3
\* From a filled cache, get() and set() are explored for MaxFullOps calls.
MaxFullOps == 2
\* The clock runs from 0 to MaxTime (seconds).
MaxTime == 3
\* force_cleanup() is explored while the cleanups counter is below MaxCleanups.
MaxCleanups == 2

MB == 1024 * 1024
MaxMemoryBytes == max_memory_mb * MB
\* The fixed overhead of the fallback size estimate.
FallbackOverhead == 200

\* What a call returns: Python's None, a bool or a stored value.  (Reports
\* are records of their own.)
None == [none |-> TRUE]
Bool(b) == [bool |-> b]
Val(value) == [value |-> value]
NoSession == 0

(***************************************************************************)
(* Keys.  A key is the sequence of the characters of the Python string,    *)
(* with each literal word of an f-string kept as one token (no literal is  *)
(* a prefix of another, and none starts with a digit or a colon, so        *)
(* str.startswith on the strings is IsPrefix on these sequences).          *)
(***************************************************************************)
Digit(d) ==
  CASE d = 0 -> "0" [] d = 1 -> "1" [] d = 2 -> "2" [] d = 3 -> "3" [] d = 4 -> "4"
    [] d = 5 -> "5" [] d = 6 -> "6" [] d = 7 -> "7" [] d = 8 -> "8" [] d = 9 -> "9"

\* f"{n}" for a non-negative int: its decimal digits.
RECURSIVE Str(_)
Str(n) == IF n < 10 THEN <<Digit(n)>> ELSE Str(n \div 10) \o <<Digit(n % 10)>>

\* str.startswith
StartsWith(s, prefix) ==
  /\ Len(prefix) <= Len(s)
  /\ \A i \in 1..Len(prefix) : s[i] = prefix[i]

\* hashlib.md5(f"{content}:{model}".encode()).hexdigest(), as an opaque token.
Md5Hex(content, model) == "md5<" \o content \o ":" \o model \o ">"

\* f"chat_history:{user_id}:session:{session_id}:{skip}:{limit}" when
\* session_id is truthy, else f"chat_history:{user_id}:{skip}:{limit}".
\* NoSession stands for both falsy session ids, None and 0.
ChatHistoryKey(user_id, skip, limit, session_id) ==
  IF session_id # NoSession
    THEN <<"chat_history", ":">> \o Str(user_id) \o <<":", "session", ":">>
           \o Str(session_id) \o <<":">> \o Str(skip) \o <<":">> \o Str(limit)
    ELSE <<"chat_history", ":">> \o Str(user_id) \o <<":">> \o Str(skip)
           \o <<":">> \o Str(limit)

\* f"llm_response:{user_id}:{content_hash}"
LlmResponseKey(user_id, content, model) ==
  <<"llm_response", ":">> \o Str(user_id) \o <<":", Md5Hex(content, model)>>

\* The users, pages, prompts and models explored: user 1 has one page of
\* history less than the cache has room for, user 12 has one page, and user 1
\* has one cached LLM response.
Users == {1, 12}
Contents == {"hi"}
Models == {"gemini"}
PageLimit == 10
PageKey(i) == ChatHistoryKey(1, PageLimit * i, PageLimit, NoSession)

\* The keys the engine is called with: one more than the cache has room for.
Keys ==
  {PageKey(i) : i \in 0..(max_entries - 2)}
    \cup {ChatHistoryKey(12, 0, PageLimit, NoSession), LlmResponseKey(1, "hi", "gemini")}

(***************************************************************************)
(* Values.  A value is known to the cache only through pickle.dumps and    *)
(* str(), both of which may raise.                                         *)
(***************************************************************************)
Ok(n) == [ok |-> TRUE, val |-> n]
Raise == [ok |-> FALSE, val |-> 0]

\* len(pickle.dumps(value)), or the exception it raises.
PickleDumpsLen(value) ==
  CASE value = "v100k" -> Ok(100000)
    [] value = "v600k" -> Ok(600000)
    [] value = "vover" -> Ok(MaxMemoryBytes + 1)
    [] OTHER -> Raise

\* len(str(value).encode("utf-8")), or the exception it raises.
StrEncodedLen(value) ==
  CASE value = "vnopickle" -> Ok(50)
    [] value = "vbroken" -> Raise
    [] OTHER -> Ok(20)

\* The values the engine is called with directly, and their time-to-live.
Values == {"v100k", "v600k", "vover"}
TTLs == {1}

(***************************************************************************)
(* CacheEntry                                                              *)
(***************************************************************************)
\* CacheEntry._calculate_size: the pickled length, or on any exception the
\* length of str(value) plus a fixed overhead (which may itself raise).
CalculateSize(value) ==
  IF PickleDumpsLen(value).ok
    THEN PickleDumpsLen(value)
    ELSE IF StrEncodedLen(value).ok
           THEN Ok(StrEncodedLen(value).val + FallbackOverhead)
           ELSE Raise

\* CacheEntry.__init__ (called only when _calculate_size does not raise).
CacheEntry(key, value, ttl, t) ==
  [key |-> key, value |-> value, ttl |-> ttl, created_at |-> t,
   last_accessed |-> t, access_count |-> 1,
   size_bytes |-> CalculateSize(value).val]

\* is_expired with >= where the code has >.
IsExpired_AtDeadline(entry, t) == t >= entry.created_at + entry.ttl

\* CacheEntry.is_expired, at time t.
IsExpired(entry, t) == t > entry.created_at + entry.ttl

\* access() that also restarts the entry's life (a sliding expiry).
Access_Sliding(entry, t) ==
  [entry EXCEPT !.last_accessed = t, !.access_count = entry.access_count + 1,
                !.created_at = t]

\* access() that refreshes the time of the last access without counting it.
Access_Uncounted(entry, t) == [entry EXCEPT !.last_accessed = t]

\* CacheEntry.access, at time t.
Access(entry, t) ==
  [entry EXCEPT !.last_accessed = t, !.access_count = entry.access_count + 1]

(***************************************************************************)
(* MemoryManagedCache.  The OrderedDict _cache is the sequence of its      *)
(* entries in dictionary order: the head is the least recently used one.   *)
(* An engine state is a record [cache, stats, last_cleanup].               *)
(***************************************************************************)
RECURSIVE SumSizes(_)
SumSizes(entries) ==
  IF entries = <<>> THEN 0 ELSE Head(entries).size_bytes + SumSizes(Tail(entries))

\* MemoryManagedCache._get_current_memory_usage (in bytes).
GetCurrentMemoryUsage(entries) == SumSizes(entries)

CacheKeys(entries) == {entries[i].key : i \in 1..Len(entries)}
EntryOf(entries, key) ==
  entries[CHOOSE i \in 1..Len(entries) : entries[i].key = key]

\* del self._cache[key]
DelKey(entries, key) ==
  LET Keep(e) == e.key # key IN SelectSeq(entries, Keep)

\* A hit that records the access but leaves the entry where it is.
MoveToEnd_InPlace(entries, key, t) ==
  [i \in 1..Len(entries) |->
     IF entries[i].key = key THEN Access(entries[i], t) ELSE entries[i]]

\* self._cache.move_to_end(key) after entry.access()
MoveToEnd(entries, key, t) ==
  DelKey(entries, key) \o <<Access(EntryOf(entries, key), t)>>

\* The entries of the cache that are not expired at time t, in order.
NotExpired(entries, t) ==
  LET Fresh(e) == ~IsExpired(e, t) IN SelectSeq(entries, Fresh)
OnlyExpired(entries, t) ==
  LET Stale(e) == IsExpired(e, t) IN SelectSeq(entries, Stale)

\* The loop of _evict_entries popping the most recently used entry, the
\* last one, where the code pops the first.
RECURSIVE LruLoop_FromNewest(_, _, _, _)
LruLoop_FromNewest(entries, evicted_count, evicted_bytes, required_bytes) ==
  IF Len(entries) > 0
       /\ (Len(entries) >= max_entries \/ evicted_bytes < required_bytes)
    THEN LET rest == SubSeq(entries, 1, Len(entries) - 1)
             count == evicted_count + 1
             bytes == evicted_bytes + entries[Len(entries)].size_bytes
         IN IF count > SafetyLimit
              THEN [entries |-> rest, count |-> count]
              ELSE LruLoop_FromNewest(rest, count, bytes, required_bytes)
    ELSE [entries |-> entries, count |-> evicted_count]

\* The while loop of _evict_entries: pop the head while the cache is not
\* empty and (it is full or too little has been freed); break once more than
\* SafetyLimit entries have been evicted in this call.
RECURSIVE LruLoop(_, _, _, _)
LruLoop(entries, evicted_count, evicted_bytes, required_bytes) ==
  IF Len(entries) > 0
       /\ (Len(entries) >= max_entries \/ evicted_bytes < required_bytes)
    THEN LET rest == Tail(entries)
             count == evicted_count + 1
             bytes == evicted_bytes + Head(entries).size_bytes
         IN IF count > SafetyLimit
              THEN [entries |-> rest, count |-> count]
              ELSE LruLoop(rest, count, bytes, required_bytes)
    ELSE [entries |-> entries, count |-> evicted_count]

\* _evict_entries without its first pass: the loop pops the head of the
\* recency order whether it is expired or not.
EvictEntries_LruOnly(c, required_bytes, t) ==
  LET loop == LruLoop(c.cache, 0, 0, required_bytes)
  IN [c EXCEPT !.cache = loop.entries,
               !.stats.evictions = c.stats.evictions + loop.count,
               !.stats.current_memory = GetCurrentMemoryUsage(loop.entries)]

\* MemoryManagedCache._evict_entries
EvictEntries(c, required_bytes, t) ==
  LET expired == OnlyExpired(c.cache, t)
      loop == LruLoop(NotExpired(c.cache, t), Len(expired), SumSizes(expired),
                      required_bytes)
  IN [c EXCEPT !.cache = loop.entries,
               !.stats.evictions = c.stats.evictions + loop.count,
               !.stats.current_memory = GetCurrentMemoryUsage(loop.entries)]

\* The entries _evict_entries removes, in the order it removes them: the
\* expired ones in the order of the dictionary, then the ones the loop pops.
EvictionOrder(c, required_bytes, t) ==
  LET expired == OnlyExpired(c.cache, t)
      fresh == NotExpired(c.cache, t)
      loop == LruLoop(fresh, Len(expired), SumSizes(expired), required_bytes)
  IN expired \o SubSeq(fresh, 1, Len(fresh) - Len(loop.entries))

\* _ensure_memory_space testing the entry count with > where the code has >=.
EnsureMemorySpace_CountOffByOne(c, required_bytes, t) ==
  IF Len(c.cache) > max_entries
       \/ GetCurrentMemoryUsage(c.cache) + required_bytes > MaxMemoryBytes
    THEN EvictEntries(c, required_bytes, t)
    ELSE c

\* MemoryManagedCache._ensure_memory_space
EnsureMemorySpace(c, required_bytes, t) ==
  IF Len(c.cache) >= max_entries
       \/ GetCurrentMemoryUsage(c.cache) + required_bytes > MaxMemoryBytes
    THEN EvictEntries(c, required_bytes, t)
    ELSE c

\* MemoryManagedCache._cleanup_expired
CleanupExpired(c, t) == [c EXCEPT !.cache = NotExpired(c.cache, t)]

\* _maybe_cleanup that sweeps and counts the sweep but leaves _last_cleanup
\* as it was.
MaybeCleanup_KeepsTimer(c, t) ==
  IF t - c.last_cleanup < cleanup_interval_seconds
    THEN c
    ELSE [CleanupExpired(c, t) EXCEPT !.stats.cleanups = c.stats.cleanups + 1]

\* MemoryManagedCache._maybe_cleanup
MaybeCleanup(c, t) ==
  IF t - c.last_cleanup < cleanup_interval_seconds
    THEN c
    ELSE [CleanupExpired(c, t) EXCEPT !.last_cleanup = t,
                                      !.stats.cleanups = c.stats.cleanups + 1]

\* What a call hands back: the state it leaves, the value it returns and
\* whether it raised instead of returning.
Returns(c, val) == [c |-> c, val |-> val, raised |-> FALSE]
Raises(c) == [c |-> c, val |-> None, raised |-> TRUE]

\* get() finding the key expired, without counting the miss.
GetExpired_Uncounted(c, key) ==
  LET rest == DelKey(c.cache, key)
  IN Returns([c EXCEPT !.cache = rest, !.stats.total_entries = Len(rest)], None)

\* MemoryManagedCache.get, the branch of an expired entry.
GetExpired(c, key) ==
  LET rest == DelKey(c.cache, key)
  IN Returns([c EXCEPT !.cache = rest,
                       !.stats.total_entries = Len(rest),
                       !.stats.misses = @ + 1], None)

\* MemoryManagedCache.get
CacheGet(c, key, t) ==
  LET c1 == MaybeCleanup([c EXCEPT !.stats.total_operations = @ + 1], t)
  IN IF key \notin CacheKeys(c1.cache)
       THEN Returns([c1 EXCEPT !.stats.misses = @ + 1], None)
       ELSE IF IsExpired(EntryOf(c1.cache, key), t)
              THEN GetExpired(c1, key)
              ELSE Returns([c1 EXCEPT !.cache = MoveToEnd(c1.cache, key, t),
                                      !.stats.hits = @ + 1],
                           Val(EntryOf(c1.cache, key).value))

\* set() that, for a key that is stored, writes the value, its size and the
\* ttl into the stored entry instead of storing a new one.
CacheSet_InPlace(c, key, value, ttl, t) ==
  LET c1 == [c EXCEPT !.stats.total_operations = @ + 1]
  IN IF ~CalculateSize(value).ok
       THEN Raises(c1)
       ELSE LET entry == IF key \in CacheKeys(c.cache)
                           THEN [EntryOf(c.cache, key) EXCEPT
                                   !.value = value, !.ttl = ttl,
                                   !.size_bytes = CalculateSize(value).val]
                           ELSE CacheEntry(key, value, ttl, t)
                c2 == EnsureMemorySpace(c1, entry.size_bytes, t)
                stored == DelKey(c2.cache, key) \o <<entry>>
            IN Returns([c2 EXCEPT !.cache = stored,
                                  !.stats.total_entries = Len(stored)], Bool(TRUE))

\* MemoryManagedCache.set
CacheSet(c, key, value, ttl, t) ==
  LET c1 == [c EXCEPT !.stats.total_operations = @ + 1]
  IN IF ~CalculateSize(value).ok
       THEN Raises(c1)
       ELSE LET entry == CacheEntry(key, value, ttl, t)
                c2 == EnsureMemorySpace(c1, entry.size_bytes, t)
                stored == DelKey(c2.cache, key) \o <<entry>>
            IN Returns([c2 EXCEPT !.cache = stored,
                                  !.stats.total_entries = Len(stored)], Bool(TRUE))

\* delete() without the test that the key is stored.
CacheDelete_Unchecked(c, key) ==
  LET rest == DelKey(c.cache, key)
  IN Returns([c EXCEPT !.cache = rest,
                       !.stats.total_entries = c.stats.total_entries - 1], Bool(TRUE))

\* MemoryManagedCache.delete
CacheDelete(c, key) ==
  IF key \in CacheKeys(c.cache)
    THEN LET rest == DelKey(c.cache, key)
         IN Returns([c EXCEPT !.cache = rest,
                              !.stats.total_entries = Len(rest)], Bool(TRUE))
    ELSE Returns(c, Bool(FALSE))

\* clear() that empties the dictionary without resetting the entry counter.
CacheClear_KeepsCount(c) == Returns([c EXCEPT !.cache = <<>>], None)

\* MemoryManagedCache.clear
CacheClear(c) ==
  Returns([c EXCEPT !.cache = <<>>, !.stats.total_entries = 0], None)

\* The hit rate of get_stats, (hits / max(hits + misses, 1)) * 100, kept as
\* the fraction num / den.
HitRate(stats) ==
  [num |-> stats.hits * 100,
   den |-> IF stats.hits + stats.misses > 1 THEN stats.hits + stats.misses ELSE 1]

\* MemoryManagedCache.get_stats (the fields the cache itself computes).
CacheGetStats(c) ==
  Returns(c, [hits |-> c.stats.hits, misses |-> c.stats.misses,
              evictions |-> c.stats.evictions, cleanups |-> c.stats.cleanups,
              total_entries |-> c.stats.total_entries,
              total_operations |-> c.stats.total_operations,
              current_memory |-> GetCurrentMemoryUsage(c.cache),
              hit_rate_percent |-> HitRate(c.stats),
              entries |-> Len(c.cache)])

\* force_cleanup() that sweeps only when the interval of the periodic sweep
\* has elapsed.
CacheForceCleanup_OnTimer(c, t) ==
  LET c1 == IF t - c.last_cleanup < cleanup_interval_seconds
              THEN c
              ELSE CleanupExpired(c, t)
  IN Returns([c1 EXCEPT !.stats.cleanups = @ + 1],
             [cleaned_entries |-> Len(c.cache) - Len(c1.cache),
              remaining_entries |-> Len(c1.cache), freed_memory_mb |-> 0])

\* MemoryManagedCache.force_cleanup
CacheForceCleanup(c, t) ==
  LET c1 == CleanupExpired(c, t)
  IN Returns([c1 EXCEPT !.stats.cleanups = @ + 1],
             [cleaned_entries |-> Len(c.cache) - Len(c1.cache),
              remaining_entries |-> Len(c1.cache), freed_memory_mb |-> 0])

\* MemoryManagedCache.optimize
CacheOptimize(c, t) ==
  LET c1 == CleanupExpired(c, t)
  IN Returns(c1,
             [initial_memory |-> GetCurrentMemoryUsage(c.cache),
              final_memory |-> GetCurrentMemoryUsage(c1.cache),
              memory_saved |-> GetCurrentMemoryUsage(c.cache)
                                 - GetCurrentMemoryUsage(c1.cache),
              initial_entries |-> Len(c.cache), final_entries |-> Len(c1.cache),
              entries_removed |-> Len(c.cache) - Len(c1.cache)])

\* MemoryManagedCache.__init__, constructed at time t.
NewCache(t) ==
  [cache |-> <<>>,
   stats |-> [hits |-> 0, misses |-> 0, evictions |-> 0, cleanups |-> 0,
              memory_cleanups |-> 0, total_entries |-> 0, current_memory |-> 0,
              total_operations |-> 0],
   last_cleanup |-> t]

(***************************************************************************)
(* The cache as a state machine: one process-wide MemoryManagedCache and   *)
(* the clock, with every public operation taken as one step (each one      *)
(* runs under the cache's lock from its first statement to its last).      *)
(***************************************************************************)
VARIABLES
  cache,         \* MemoryManagedCache._cache
  stats,         \* MemoryManagedCache.stats
  last_cleanup,  \* MemoryManagedCache._last_cleanup
  now,           \* the wall clock, in seconds
  ret,           \* the last call: its name, key, returned value, raised or not
  obs,           \* what the callers of get() have seen so far
  budget,        \* get() and set() are explored while total_operations < budget
  recency,       \* what set() stored under each stored key (key, value, ttl,
                 \* time of the set), ordered by last set() or get() hit
  lock,          \* MemoryManagedCache._lock: the thread that holds it
  pc,            \* where each thread is in its call of the cache
  call,          \* the call each thread is in: method, arguments, locals
  serial         \* the calls invoked so far, and the engine state before and
                 \* after the last of the whole calls applied one after the
                 \* other in the order the lock was acquired, with what each
                 \* thread's call returns there

vars == <<cache, stats, last_cleanup, now, ret, obs, budget, recency,
          lock, pc, call, serial>>

\* The threads that call the cache.  With one thread in a call at a time,
\* a call is taken as one step and these variables stay as they start.
Threads == {1, 2}
NoThread == 0
NoCall == [op |-> "none"]
threads == <<lock, pc, call, serial>>
NoCalls(c) ==
  /\ lock = NoThread
  /\ pc = [thread \in Threads |-> "idle"]
  /\ call = [thread \in Threads |-> NoCall]
  /\ serial = [calls |-> 0, before |-> c, c |-> c,
               val |-> [thread \in Threads |-> None],
               raised |-> [thread \in Threads |-> FALSE]]

Self == [cache |-> cache, stats |-> stats, last_cleanup |-> last_cleanup]

Called(op, key, r) == [op |-> op, key |-> key, val |-> r.val, raised |-> r.raised]

\* The engine state after a call.
Becomes(c) ==
  /\ cache' = c.cache
  /\ stats' = c.stats
  /\ last_cleanup' = c.last_cleanup

\* What the callers know, kept apart from the cache's own bookkeeping.
Stored(key, value, ttl, t) == [key |-> key, value |-> value, ttl |-> ttl, set_at |-> t]
RecencyKeys == {recency[i].key : i \in 1..Len(recency)}
Known(key) == recency[CHOOSE i \in 1..Len(recency) : recency[i].key = key]

\* The recency record after a call: the records in `used` (of the key set, or
\* read with a hit, by the call) become the most recent ones, and the keys
\* the cache no longer stores are forgotten.
Recent(used, stored) ==
  LET Older(r) == (\A i \in 1..Len(used) : used[i].key # r.key) /\ r.key \in stored
      Kept(r) == r.key \in stored
  IN SelectSeq(recency, Older) \o SelectSeq(used, Kept)

Init ==
  /\ now = 0
  /\ cache = NewCache(0).cache
  /\ stats = NewCache(0).stats
  /\ last_cleanup = NewCache(0).last_cleanup
  /\ ret = [op |-> "init", key |-> <<>>, val |-> None, raised |-> FALSE]
  /\ obs = [gets |-> 0, values |-> 0, nones |-> 0]
  /\ recency = <<>>
  /\ budget = MaxOps
  /\ NoCalls(NewCache(0))

\* One second passes.
Tick ==
  /\ now < MaxTime
  /\ now' = now + 1
  /\ UNCHANGED <<cache, stats, last_cleanup, ret, obs, budget, recency, threads>>

\* cache.get(key)
get(key) ==
  /\ stats.total_operations < budget
  /\ LET r == CacheGet(Self, key, now)
     IN /\ Becomes(r.c)
        /\ ret' = Called("get", key, r)
        /\ obs' = [gets |-> obs.gets + 1,
                   values |-> obs.values + (IF r.val # None THEN 1 ELSE 0),
                   nones |-> obs.nones + (IF r.val = None THEN 1 ELSE 0)]
        /\ recency' = Recent(IF r.val # None THEN <<Known(key)>> ELSE <<>>,
                              CacheKeys(r.c.cache))
  /\ UNCHANGED <<now, budget, threads>>

\* cache.set(key, value, ttl)
set(key, value, ttl) ==
  /\ stats.total_operations < budget
  /\ LET r == CacheSet(Self, key, value, ttl, now)
     IN /\ Becomes(r.c)
        /\ ret' = Called("set", key, r)
        /\ recency' = Recent(IF r.raised THEN <<>>
                                          ELSE <<Stored(key, value, ttl, now)>>,
                              CacheKeys(r.c.cache))
  /\ UNCHANGED <<now, obs, budget, threads>>

\* cache.delete(key)
delete(key) ==
  /\ LET r == CacheDelete(Self, key)
     IN /\ Becomes(r.c)
        /\ ret' = Called("delete", key, r)
        /\ recency' = Recent(<<>>, CacheKeys(r.c.cache))
  /\ UNCHANGED <<now, obs, budget, threads>>

\* cache.clear()
clear ==
  /\ LET r == CacheClear(Self)
     IN /\ Becomes(r.c)
        /\ ret' = Called("clear", <<>>, r)
        /\ recency' = Recent(<<>>, CacheKeys(r.c.cache))
  /\ UNCHANGED <<now, obs, budget, threads>>

\* cache.get_stats()
get_stats ==
  /\ LET r == CacheGetStats(Self)
     IN /\ Becomes(r.c)
        /\ ret' = Called("get_stats", <<>>, r)
        /\ recency' = Recent(<<>>, CacheKeys(r.c.cache))
  /\ UNCHANGED <<now, obs, budget, threads>>

\* cache.force_cleanup()
force_cleanup ==
  /\ stats.cleanups < MaxCleanups
  /\ LET r == CacheForceCleanup(Self, now)
     IN /\ Becomes(r.c)
        /\ ret' = Called("force_cleanup", <<>>, r)
        /\ recency' = Recent(<<>>, CacheKeys(r.c.cache))
  /\ UNCHANGED <<now, obs, budget, threads>>

\* cache.optimize()
optimize ==
  /\ LET r == CacheOptimize(Self, now)
     IN /\ Becomes(r.c)
        /\ ret' = Called("optimize", <<>>, r)
        /\ recency' = Recent(<<>>, CacheKeys(r.c.cache))
  /\ UNCHANGED <<now, obs, budget, threads>>

Next ==
  \/ Tick
  \/ \E key \in Keys : get(key)
  \/ \E key \in Keys, value \in Values, ttl \in TTLs : set(key, value, ttl)
  \/ \E key \in Keys : delete(key)
  \/ clear
  \/ get_stats
  \/ force_cleanup
  \/ optimize

Spec == Init /\ [][Next]_vars

(***************************************************************************)
(* The same cache, taken up after max_entries set() calls at time 0 have   *)
(* filled it: the i-th call stored FillKey(i).  From there on get() and    *)
(* set() are explored for MaxFullOps calls.                                *)
(***************************************************************************)
FillKey(i) ==
  IF i < max_entries THEN PageKey(i - 1) ELSE ChatHistoryKey(12, 0, PageLimit, NoSession)

\* The state of the cache after set(FillKey(1), ...), ..., set(FillKey(n), ...).
RECURSIVE FillCache(_, _, _)
FillCache(n, values, ttl) ==
  IF n = 0
    THEN NewCache(0)
    ELSE CacheSet(FillCache(n - 1, values, ttl), FillKey(n), values[n], ttl, 0).c

\* The values the cache is filled with, which fit together: small ones, and
\* a small or a large one stored last.
FillValues == {[i \in 1..max_entries |-> IF i < max_entries THEN "v100k" ELSE last] :
                 last \in {"v100k", "v600k"}}

InitFull ==
  \E values \in FillValues, ttl \in TTLs :
    LET c == FillCache(max_entries, values, ttl)
        Kept(r) == r.key \in CacheKeys(c.cache)
    IN /\ now = 0
       /\ cache = c.cache
       /\ stats = c.stats
       /\ last_cleanup = c.last_cleanup
       /\ ret = [op |-> "set", key |-> FillKey(max_entries), val |-> Bool(TRUE),
                 raised |-> FALSE]
       /\ obs = [gets |-> 0, values |-> 0, nones |-> 0]
       /\ recency = SelectSeq([i \in 1..max_entries |->
                                  Stored(FillKey(i), values[i], ttl, 0)], Kept)
       /\ budget = max_entries + MaxFullOps
       /\ NoCalls(NewCache(0))

SpecFull == InitFull /\ [][Next]_vars

(***************************************************************************)
(* Properties of the eviction engine.                                      *)
(***************************************************************************)
\* The key that is in no filled cache: the one a set() adds to a full cache.
NewKey == LlmResponseKey(1, "hi", "gemini")

AllFresh(entries, t) == \A i \in 1..Len(entries) : ~IsExpired(entries[i], t)

\* The stored entries, whatever their position.
Entries(entries) == {entries[i] : i \in 1..Len(entries)}

\* C1: the number of stored entries never exceeds max_entries, after a set()
\* as after any other operation.
C1_CapacityInvariant == Len(cache) <= max_entries

\* A set() of a new key into a full cache has completed, with an eviction.
C1_Witness ==
  /\ ret.op = "set"
  /\ ret.key = NewKey
  /\ NewKey \in CacheKeys(cache)
  /\ Len(cache) = max_entries
  /\ stats.evictions >= 1

\* C2: after a set() the stored sizes add up to at most the memory budget,
\* unless the entry just stored is by itself larger than the budget.
C2_MemoryInvariant ==
  (ret.op = "set" /\ ~ret.raised) =>
    \/ SumSizes(cache) <= MaxMemoryBytes
    \/ EntryOf(cache, ret.key).size_bytes > MaxMemoryBytes

\* The case of C3: set(key, value) adds a new key to a cache that holds
\* max_entries entries, none expired, and the cache without its least
\* recently used entry has room for the value within the memory budget.
C3_Case(key, value, ttl) ==
  /\ set(key, value, ttl)
  /\ key \notin CacheKeys(cache)
  /\ Len(cache) = max_entries
  /\ AllFresh(cache, now)
  /\ SumSizes(cache) - EntryOf(cache, Head(recency).key).size_bytes
       + CalculateSize(value).val <= MaxMemoryBytes

\* What C3 says of that set(): exactly the least recently used entry (the one
\* whose last set() or get() hit is the oldest) goes, every other entry stays
\* as it was, the new entry is stored, and the cache is full again.
C3_EvictsOnlyLru(key) ==
  /\ CacheKeys(cache') = (CacheKeys(cache) \ {Head(recency).key}) \cup {key}
  /\ \A e \in Entries(cache) : e.key # Head(recency).key => e \in Entries(cache')
  /\ Len(cache') = max_entries
  /\ stats'.evictions = stats.evictions + 1

\* C3 as claimed: in that case exactly the least recently used entry is evicted.
C3_LruAsClaimed ==
  [][\A key \in Keys, value \in Values, ttl \in TTLs :
       C3_Case(key, value, ttl) => C3_EvictsOnlyLru(key)]_vars

\* C3, amended: in that case, and when the least recently used entry is at
\* least as large as the new one, exactly the least recently used entry is
\* evicted.
C3_LruWhenLargeEnough ==
  [][\A key \in Keys, value \in Values, ttl \in TTLs :
       (/\ C3_Case(key, value, ttl)
        /\ EntryOf(cache, Head(recency).key).size_bytes >= CalculateSize(value).val)
         => C3_EvictsOnlyLru(key)]_vars

\* A get() hit has protected the first stored key: the set() of a new key
\* evicted the second one instead.
C3_Witness ==
  /\ ret.op = "set"
  /\ ret.key = NewKey
  /\ Len(cache) = max_entries
  /\ stats.evictions = 1
  /\ FillKey(1) \in CacheKeys(cache)
  /\ FillKey(2) \notin CacheKeys(cache)
  /\ EntryOf(cache, FillKey(1)).access_count = 2

(***************************************************************************)
(* Properties of expiry, statistics and delete().                          *)
(***************************************************************************)
\* C4: a get(key) of a stored key returns the value set() stored, at every
\* time up to and including the time of the set plus its ttl; at every later
\* time it returns a miss and the key is no longer stored.
C4_TtlCorrectness ==
  [][\A key \in Keys :
       (get(key) /\ key \in RecencyKeys) =>
         IF now <= Known(key).set_at + Known(key).ttl
           THEN ret'.val = Val(Known(key).value) /\ key \in CacheKeys(cache')
           ELSE ret'.val = None /\ key \notin CacheKeys(cache')]_vars

\* An entry was read at the last second of its life.
C4_Witness ==
  /\ ret.op = "get"
  /\ ret.val # None
  /\ ret.key \in CacheKeys(cache)
  /\ now = EntryOf(cache, ret.key).created_at + EntryOf(cache, ret.key).ttl
  /\ EntryOf(cache, ret.key).last_accessed = now

\* C5: the expiry instant of a stored entry is the time of its set() plus the
\* ttl given to that set(), however often the entry has been read, and a get()
\* after that instant is a miss although the entry was read before.
C5_TtlNeverReset ==
  [][\A key \in Keys :
       (get(key) /\ key \in RecencyKeys) =>
         /\ \A e \in Entries(cache') :
              e.created_at = Known(e.key).set_at /\ e.ttl = Known(e.key).ttl
         /\ (/\ key \in CacheKeys(cache)
             /\ EntryOf(cache, key).access_count > 1
             /\ now > Known(key).set_at + Known(key).ttl) => ret'.val = None]_vars

\* An entry that was read after it was stored has now outlived its ttl.
C5_Witness ==
  \E e \in Entries(cache) :
    /\ e.access_count > 1
    /\ e.last_accessed > e.created_at
    /\ now > e.created_at + e.ttl

\* C7: hits and misses count the get() calls that returned a value and those
\* that returned a miss, whatever other operations ran, and get_stats()
\* reports them with the hit rate 100 * hits / gets (0 when there was no get).
C7_StatsConsistency ==
  /\ stats.hits = obs.values
  /\ stats.misses = obs.nones
  /\ obs.values + obs.nones = obs.gets
  /\ ret.op = "get_stats" =>
       /\ ret.val.hits = obs.values
       /\ ret.val.misses = obs.nones
       /\ IF obs.gets = 0
            THEN ret.val.hit_rate_percent.num = 0
            ELSE ret.val.hit_rate_percent.num * obs.gets
                   = 100 * obs.values * ret.val.hit_rate_percent.den

\* get_stats() reports after a hit and a miss.
C7_Witness ==
  /\ ret.op = "get_stats"
  /\ ret.val.hits >= 1
  /\ ret.val.misses >= 1

\* C8: delete(key) of a key that is not stored returns False and changes
\* nothing; of a stored key it returns True and removes that key alone, the
\* rest keeping its order and every counter its value, so that the key is not
\* stored for a repeated delete(key).
C8_DeleteIdempotent ==
  [][\A key \in Keys :
       delete(key) =>
         IF key \notin CacheKeys(cache)
           THEN /\ ret'.val = Bool(FALSE)
                /\ cache' = cache
                /\ stats' = stats
                /\ last_cleanup' = last_cleanup
           ELSE /\ ret'.val = Bool(TRUE)
                /\ key \notin CacheKeys(cache')
                /\ \E i \in 1..Len(cache) :
                     /\ cache[i].key = key
                     /\ cache' = SubSeq(cache, 1, i - 1) \o SubSeq(cache, i + 1, Len(cache))
                /\ stats' = [stats EXCEPT !.total_entries = Len(cache')]
                /\ last_cleanup' = last_cleanup]_vars

\* A delete() of a key that is not stored returned False, the cache holding
\* other entries and having counted hits and misses.
C8_Witness ==
  /\ ret.op = "delete"
  /\ ret.val = Bool(FALSE)
  /\ Len(cache) >= 1
  /\ stats.hits >= 1
  /\ stats.misses >= 1

(***************************************************************************)
(* CacheManager, the facade of backend/app/core/cache.py, over the same    *)
(* MemoryManagedCache.  Each method builds its key or its prefix and calls *)
(* the engine inside try / except Exception, where the exception is logged *)
(* and the method returns None.                                            *)
(***************************************************************************)
\* f"user:{user_id}", the key get_current_user passes to the engine directly.
UserKey(user_id) == <<"user", ":">> \o Str(user_id)

\* What a facade method hands back when its body hands back r: the except
\* clause swallows the exception and the method falls through to None.
TryExcept(r) == IF r.raised THEN Returns(r.c, None) ELSE r

\* CacheManager.get_chat_history
GetChatHistory(c, user_id, skip, limit, session_id, t) ==
  TryExcept(CacheGet(c, ChatHistoryKey(user_id, skip, limit, session_id), t))

\* [msg.__dict__ for msg in messages]: the list that is cached for the
\* messages.  A list of messages is named by the value cached for it.
MessagesJson(messages) == Ok(messages)

\* CacheManager.set_chat_history: nothing is returned, whether the engine
\* stored the list or raised.
SetChatHistory(c, user_id, skip, limit, messages, ttl, session_id, t) ==
  IF ~MessagesJson(messages).ok
    THEN Returns(c, None)
    ELSE Returns(TryExcept(CacheSet(c, ChatHistoryKey(user_id, skip, limit, session_id),
                                    MessagesJson(messages).val, ttl, t)).c, None)

\* The keys of self.cache._cache.keys() that start with the prefix, in the
\* order of the dictionary.
KeysToDelete(entries, prefix) ==
  LET Match(e) == StartsWith(e.key, prefix)
      matching == SelectSeq(entries, Match)
  IN [i \in 1..Len(matching) |-> matching[i].key]

\* for key in keys_to_delete: self.cache.delete(key)
RECURSIVE DeleteAll(_, _)
DeleteAll(c, keys) ==
  IF keys = <<>> THEN c ELSE DeleteAll(CacheDelete(c, Head(keys)).c, Tail(keys))

\* The prefix of invalidate_user_history: with a session, the f-string
\* f"chat_history:{user_id}:session:{session_id}:*", whose "*" is a character
\* like any other for str.startswith.
UserHistoryPrefix(user_id, session_id) ==
  IF session_id # NoSession
    THEN <<"chat_history", ":">> \o Str(user_id) \o <<":", "session", ":">>
           \o Str(session_id) \o <<":", "*">>
    ELSE <<"chat_history", ":">> \o Str(user_id) \o <<":">>

\* invalidate_user_history scanning for the user id without the colon after it.
InvalidateUserHistory_NoSeparator(c, user_id, session_id) ==
  Returns(DeleteAll(c, KeysToDelete(c.cache, <<"chat_history", ":">> \o Str(user_id))),
          None)

\* CacheManager.invalidate_user_history
InvalidateUserHistory(c, user_id, session_id) ==
  Returns(DeleteAll(c, KeysToDelete(c.cache, UserHistoryPrefix(user_id, session_id))),
          None)

\* CacheManager.get_llm_response
GetLlmResponse(c, user_id, content, model, t) ==
  TryExcept(CacheGet(c, LlmResponseKey(user_id, content, model), t))

\* CacheManager.set_llm_response
SetLlmResponse(c, user_id, content, model, response, ttl, t) ==
  Returns(TryExcept(CacheSet(c, LlmResponseKey(user_id, content, model),
                             response, ttl, t)).c, None)

\* The prefix of a user's LLM responses without the colon after the user id.
LlmResponsePrefix_NoSeparator(user_id) == <<"llm_response", ":">> \o Str(user_id)

\* f"llm_response:{user_id}:"
LlmResponsePrefix(user_id) == <<"llm_response", ":">> \o Str(user_id) \o <<":">>

\* CacheManager.invalidate_llm_responses_for_user
InvalidateLlmResponsesForUser(c, user_id) ==
  Returns(DeleteAll(c, KeysToDelete(c.cache, LlmResponsePrefix(user_id))), None)

\* CacheManager.invalidate_all_user_data
InvalidateAllUserData(c, user_id) ==
  InvalidateLlmResponsesForUser(InvalidateUserHistory(c, user_id, NoSession).c, user_id)

(***************************************************************************)
(* The facade as a state machine: the application's calls of CacheManager  *)
(* and its direct calls of the engine, on a new cache.                     *)
(***************************************************************************)
\* get() and set(), direct or through the facade, are explored for
\* MaxFacadeOps calls.
MaxFacadeOps == 3

\* The message lists and responses given to the facade, and the values given
\* to the engine directly: one that pickles, one that does not pickle but
\* prints, and one that does neither.
Messages == {"v100k", "vnopickle", "vbroken"}
Responses == {"v100k"}
DirectValues == {"v100k", "vbroken"}
Skips == {0}
Sessions == {NoSession}

\* Every key the facade state machine calls the engine with.
FacadeKeys ==
  {ChatHistoryKey(u, skip, PageLimit, s) : u \in Users, skip \in Skips, s \in Sessions}
    \cup {LlmResponseKey(u, content, model) :
            u \in Users, content \in Contents, model \in Models}
    \cup {UserKey(u) : u \in Users}

\* The record of a set(): the call stored an entry if the entry under the key
\* is the one it made.
StoredBy(c, key, value, ttl, t) ==
  IF key \in CacheKeys(c.cache) /\ EntryOf(c.cache, key) = CacheEntry(key, value, ttl, t)
    THEN <<Stored(key, value, ttl, t)>>
    ELSE <<>>

\* A facade call that reads: its effect on the variables.
Read(op, key, r) ==
  /\ Becomes(r.c)
  /\ ret' = Called(op, key, r)
  /\ obs' = [gets |-> obs.gets + 1,
             values |-> obs.values + (IF r.val # None THEN 1 ELSE 0),
             nones |-> obs.nones + (IF r.val = None THEN 1 ELSE 0)]
  /\ recency' = Recent(IF r.val # None THEN <<Known(key)>> ELSE <<>>,
                        CacheKeys(r.c.cache))

\* A facade call that stores: its effect on the variables.
Write(op, key, r, used) ==
  /\ Becomes(r.c)
  /\ ret' = Called(op, key, r)
  /\ recency' = Recent(used, CacheKeys(r.c.cache))

\* A facade call that invalidates: its effect on the variables.  The record
\* of the call keeps the prefix and, unknown to the caller, how many entries
\* went.
Invalidate(op, prefix, r) ==
  /\ Becomes(r.c)
  /\ ret' = [op |-> op, key |-> prefix, val |-> r.val, raised |-> r.raised,
             removed |-> Len(cache) - Len(r.c.cache)]
  /\ recency' = Recent(<<>>, CacheKeys(r.c.cache))

InitFacade ==
  /\ now = 0
  /\ cache = NewCache(0).cache
  /\ stats = NewCache(0).stats
  /\ last_cleanup = NewCache(0).last_cleanup
  /\ ret = [op |-> "init", key |-> <<>>, val |-> None, raised |-> FALSE]
  /\ obs = [gets |-> 0, values |-> 0, nones |-> 0]
  /\ recency = <<>>
  /\ budget = MaxFacadeOps
  /\ NoCalls(NewCache(0))

\* cache_manager.get_chat_history(user_id, skip, limit, session_id)
get_chat_history(user_id, skip, limit, session_id) ==
  /\ stats.total_operations < budget
  /\ Read("get_chat_history", ChatHistoryKey(user_id, skip, limit, session_id),
          GetChatHistory(Self, user_id, skip, limit, session_id, now))
  /\ UNCHANGED <<now, budget, threads>>

\* cache_manager.set_chat_history(user_id, skip, limit, messages, ttl, session_id)
set_chat_history(user_id, skip, limit, messages, ttl, session_id) ==
  /\ stats.total_operations < budget
  /\ LET key == ChatHistoryKey(user_id, skip, limit, session_id)
         r == SetChatHistory(Self, user_id, skip, limit, messages, ttl, session_id, now)
     IN Write("set_chat_history", key, r, StoredBy(r.c, key, messages, ttl, now))
  /\ UNCHANGED <<now, obs, budget, threads>>

\* cache_manager.invalidate_user_history(user_id, session_id)
invalidate_user_history(user_id, session_id) ==
  /\ Invalidate("invalidate_user_history", UserHistoryPrefix(user_id, session_id),
               InvalidateUserHistory(Self, user_id, session_id))
  /\ UNCHANGED <<now, obs, budget, threads>>

\* cache_manager.get_llm_response(user_id, content, model)
get_llm_response(user_id, content, model) ==
  /\ stats.total_operations < budget
  /\ Read("get_llm_response", LlmResponseKey(user_id, content, model),
          GetLlmResponse(Self, user_id, content, model, now))
  /\ UNCHANGED <<now, budget, threads>>

\* cache_manager.set_llm_response(user_id, content, model, response, ttl)
set_llm_response(user_id, content, model, response, ttl) ==
  /\ stats.total_operations < budget
  /\ LET key == LlmResponseKey(user_id, content, model)
         r == SetLlmResponse(Self, user_id, content, model, response, ttl, now)
     IN Write("set_llm_response", key, r, StoredBy(r.c, key, response, ttl, now))
  /\ UNCHANGED <<now, obs, budget, threads>>

\* cache_manager.invalidate_llm_responses_for_user(user_id)
invalidate_llm_responses_for_user(user_id) ==
  /\ Invalidate("invalidate_llm_responses_for_user", LlmResponsePrefix(user_id),
               InvalidateLlmResponsesForUser(Self, user_id))
  /\ UNCHANGED <<now, obs, budget, threads>>

\* cache_manager.invalidate_all_user_data(user_id)
invalidate_all_user_data(user_id) ==
  /\ Invalidate("invalidate_all_user_data", Str(user_id),
               InvalidateAllUserData(Self, user_id))
  /\ UNCHANGED <<now, obs, budget, threads>>

NextFacade ==
  \/ Tick
  \/ \E u \in Users, skip \in Skips, s \in Sessions :
       get_chat_history(u, skip, PageLimit, s)
  \/ \E u \in Users, skip \in Skips, s \in Sessions, messages \in Messages, ttl \in TTLs :
       set_chat_history(u, skip, PageLimit, messages, ttl, s)
  \/ \E u \in Users, s \in Sessions : invalidate_user_history(u, s)
  \/ \E u \in Users, content \in Contents, model \in Models :
       get_llm_response(u, content, model)
  \/ \E u \in Users, content \in Contents, model \in Models,
        response \in Responses, ttl \in TTLs :
       set_llm_response(u, content, model, response, ttl)
  \/ \E u \in Users : invalidate_llm_responses_for_user(u)
  \/ \E u \in Users : invalidate_all_user_data(u)
  \/ \E u \in Users : get(UserKey(u))
  \/ \E u \in Users, value \in DirectValues, ttl \in TTLs : set(UserKey(u), value, ttl)
  \/ \E key \in FacadeKeys : delete(key)

SpecFacade == InitFacade /\ [][NextFacade]_vars

(***************************************************************************)
(* Properties of the facade.                                               *)
(***************************************************************************)
\* The engine state after the step.
Post == [cache |-> cache', stats |-> stats', last_cleanup |-> last_cleanup']

\* The entries whose key starts with none of the prefixes, in their order.
Outside(entries, prefixes) ==
  LET Other(e) == \A prefix \in prefixes : ~StartsWith(e.key, prefix)
  IN SelectSeq(entries, Other)

\* The step removes the entries whose key starts with one of the prefixes and
\* no other, and a get() of any entry it leaves, unless expired, returns the
\* value of that entry.
C6_RemovesExactly(prefixes) ==
  /\ cache' = Outside(cache, prefixes)
  /\ \A e \in Entries(cache') :
       ~IsExpired(e, now) => CacheGet(Post, e.key, now).val = Val(e.value)

C6_ChatPrefix(user_id) == <<"chat_history", ":">> \o Str(user_id) \o <<":">>
C6_LlmPrefix(user_id) == <<"llm_response", ":">> \o Str(user_id) \o <<":">>

C10_Degrades(key, value) ==
  /\ ~ret'.raised
  /\ IF PickleDumpsLen(value).ok
       THEN /\ key \in CacheKeys(cache')
            /\ EntryOf(cache', key).size_bytes = PickleDumpsLen(value).val
       ELSE IF StrEncodedLen(value).ok
              THEN /\ key \in CacheKeys(cache')
                   /\ EntryOf(cache', key).size_bytes
                        = StrEncodedLen(value).val + FallbackOverhead
              ELSE /\ cache' = cache
                   /\ last_cleanup' = last_cleanup
                   /\ stats' = [stats EXCEPT !.total_operations = @ + 1]

\* C10: no call of get, set, delete or of an invalidation, of the facade or
\* of the engine, raises to its caller; a value that cannot be pickled is
\* stored with the heuristic size, and a call that fails inside is a miss or a
\* no-op that leaves the state otherwise unchanged.
C10_ExceptionTotality ==
  [][/\ ~ret'.raised
     /\ \A u \in Users, value \in DirectValues, ttl \in TTLs :
          set(UserKey(u), value, ttl) => C10_Degrades(UserKey(u), value)
     /\ \A u \in Users, skip \in Skips, s \in Sessions, messages \in Messages,
           ttl \in TTLs :
          set_chat_history(u, skip, PageLimit, messages, ttl, s) =>
            C10_Degrades(ChatHistoryKey(u, skip, PageLimit, s), messages)]_vars

(***************************************************************************)
(* The cache called from several threads.  Every public method of          *)
(* MemoryManagedCache is one `with self._lock:` block.  A call is taken in *)
(* four steps: the thread invokes the method, acquires the lock, runs the  *)
(* first statements of the block, and runs the rest, leaving the block     *)
(* (which releases the lock) with the returned value.  Between the last    *)
(* two steps the cache is in a mid-operation state.  The clock a call      *)
(* reads is the one at the time it acquired the lock.                      *)
(***************************************************************************)
\* The threads invoke MaxCalls calls in all.
MaxCalls == 3

\* The keys and values of the calls: two values do not fit in the budget
\* together.
ConcKeys == {PageKey(0), NewKey}
ConcValues == {"v600k"}

\* The calls a thread may invoke.
Calls ==
  {[op |-> "get", key |-> key] : key \in ConcKeys}
    \cup {[op |-> "set", key |-> key, value |-> value, ttl |-> ttl] :
            key \in ConcKeys, value \in ConcValues, ttl \in TTLs}
    \cup {[op |-> "delete", key |-> key] : key \in ConcKeys}
    \cup {[op |-> op, key |-> <<>>] :
            op \in {"clear", "get_stats", "force_cleanup", "optimize"}}

\* The method of the call run as a whole on the engine state c at time t.
Whole(c, m, t) ==
  CASE m.op = "get" -> CacheGet(c, m.key, t)
    [] m.op = "set" -> CacheSet(c, m.key, m.value, m.ttl, t)
    [] m.op = "delete" -> CacheDelete(c, m.key)
    [] m.op = "clear" -> CacheClear(c)
    [] m.op = "get_stats" -> CacheGetStats(c)
    [] m.op = "force_cleanup" -> CacheForceCleanup(c, t)
    [] m.op = "optimize" -> CacheOptimize(c, t)

\* A lock that can be taken although another thread holds it.
LockIsFree_Always(l) == TRUE

\* threading.Lock.acquire, entering `with self._lock:`, blocks while the lock
\* is held.
LockIsFree(l) == l = NoThread

\* Where the first statements of a block leave the call: the engine state,
\* the method's local variables, and whether an exception left the block.
Begun(c, local) == [c |-> c, local |-> local, raised |-> FALSE]
BeginRaises(c) == [c |-> c, local |-> None, raised |-> TRUE]

\* The first statements of each method's block:
\*   get            counts the operation and runs _maybe_cleanup;
\*   set            counts the operation, makes the entry, makes room for it;
\*   delete         tests for the key and deletes it;
\*   clear          empties the dictionary;
\*   get_stats      computes the memory in use and the hit rate;
\*   force_cleanup  counts the entries, sweeps, counts them again;
\*   optimize       measures the memory in use and counts the entries.
Begin(c, m, t) ==
  CASE m.op = "get" ->
         Begun(MaybeCleanup([c EXCEPT !.stats.total_operations = @ + 1], t), None)
    [] m.op = "set" ->
         LET c1 == [c EXCEPT !.stats.total_operations = @ + 1]
         IN IF ~CalculateSize(m.value).ok
              THEN BeginRaises(c1)
              ELSE LET entry == CacheEntry(m.key, m.value, m.ttl, t)
                   IN Begun(EnsureMemorySpace(c1, entry.size_bytes, t), entry)
    [] m.op = "delete" ->
         IF m.key \in CacheKeys(c.cache)
           THEN Begun([c EXCEPT !.cache = DelKey(c.cache, m.key)], Bool(TRUE))
           ELSE Begun(c, Bool(FALSE))
    [] m.op = "clear" -> Begun([c EXCEPT !.cache = <<>>], None)
    [] m.op = "get_stats" ->
         Begun(c, [current_memory |-> GetCurrentMemoryUsage(c.cache),
                   hit_rate |-> HitRate(c.stats)])
    [] m.op = "force_cleanup" ->
         LET c1 == CleanupExpired(c, t)
         IN Begun(c1, [before_count |-> Len(c.cache), after_count |-> Len(c1.cache)])
    [] m.op = "optimize" ->
         Begun(c, [initial_memory |-> GetCurrentMemoryUsage(c.cache),
                   initial_entries |-> Len(c.cache)])

\* The rest of each method's block, up to its return:
\*   get            looks the key up: a miss, an expired entry, or a hit;
\*   set            replaces or adds the entry and sets total_entries;
\*   delete         sets total_entries if the key was there;
\*   clear          sets total_entries to 0;
\*   get_stats      builds the report from the counters;
\*   force_cleanup  counts the cleanup and reports;
\*   optimize       sweeps, measures again and reports.
Finish(c, m, local, t) ==
  CASE m.op = "get" ->
         IF m.key \notin CacheKeys(c.cache)
           THEN Returns([c EXCEPT !.stats.misses = @ + 1], None)
           ELSE IF IsExpired(EntryOf(c.cache, m.key), t)
                  THEN GetExpired(c, m.key)
                  ELSE Returns([c EXCEPT !.cache = MoveToEnd(c.cache, m.key, t),
                                         !.stats.hits = @ + 1],
                               Val(EntryOf(c.cache, m.key).value))
    [] m.op = "set" ->
         LET stored == DelKey(c.cache, m.key) \o <<local>>
         IN Returns([c EXCEPT !.cache = stored,
                              !.stats.total_entries = Len(stored)], Bool(TRUE))
    [] m.op = "delete" ->
         IF local = Bool(TRUE)
           THEN Returns([c EXCEPT !.stats.total_entries = Len(c.cache)], Bool(TRUE))
           ELSE Returns(c, Bool(FALSE))
    [] m.op = "clear" -> Returns([c EXCEPT !.stats.total_entries = 0], None)
    [] m.op = "get_stats" ->
         Returns(c, [hits |-> c.stats.hits, misses |-> c.stats.misses,
                     evictions |-> c.stats.evictions, cleanups |-> c.stats.cleanups,
                     total_entries |-> c.stats.total_entries,
                     total_operations |-> c.stats.total_operations,
                     current_memory |-> local.current_memory,
                     hit_rate_percent |-> local.hit_rate,
                     entries |-> Len(c.cache)])
    [] m.op = "force_cleanup" ->
         Returns([c EXCEPT !.stats.cleanups = @ + 1],
                 [cleaned_entries |-> local.before_count - local.after_count,
                  remaining_entries |-> local.after_count, freed_memory_mb |-> 0])
    [] m.op = "optimize" ->
         LET c1 == CleanupExpired(c, t)
         IN Returns(c1,
                    [initial_memory |-> local.initial_memory,
                     final_memory |-> GetCurrentMemoryUsage(c1.cache),
                     memory_saved |-> local.initial_memory
                                        - GetCurrentMemoryUsage(c1.cache),
                     initial_entries |-> local.initial_entries,
                     final_entries |-> Len(c1.cache),
                     entries_removed |-> local.initial_entries - Len(c1.cache)])

InitConc ==
  /\ now = 0
  /\ cache = NewCache(0).cache
  /\ stats = NewCache(0).stats
  /\ last_cleanup = NewCache(0).last_cleanup
  /\ ret = [op |-> "init", key |-> <<>>, val |-> None, raised |-> FALSE]
  /\ obs = [gets |-> 0, values |-> 0, nones |-> 0]
  /\ recency = <<>>
  /\ budget = MaxCalls
  /\ NoCalls(NewCache(0))

\* A thread calls a method of the cache.
invoke(thread, m) ==
  /\ pc[thread] = "idle"
  /\ serial.calls < budget
  /\ pc' = [pc EXCEPT ![thread] = "acquire"]
  /\ call' = [call EXCEPT ![thread] = m]
  /\ serial' = [serial EXCEPT !.calls = @ + 1]
  /\ UNCHANGED <<cache, stats, last_cleanup, now, ret, obs, budget, recency, lock>>

\* with self._lock: the thread takes the lock once it is free.
acquire(thread) ==
  /\ pc[thread] = "acquire"
  /\ LockIsFree(lock)
  /\ lock' = thread
  /\ pc' = [pc EXCEPT ![thread] = "begin"]
  /\ call' = [call EXCEPT ![thread] = [m |-> call[thread], t |-> now, local |-> None]]
  /\ LET r == Whole(serial.c, call[thread], now)
     IN serial' = [serial EXCEPT !.before = serial.c, !.c = r.c,
                                 !.val[thread] = r.val,
                                 !.raised[thread] = r.raised]
  /\ UNCHANGED <<cache, stats, last_cleanup, now, ret, obs, budget, recency>>

\* The first statements of the block where an exception leaves the method
\* with the lock still held.
begin_KeepsLock(thread) ==
  /\ pc[thread] = "begin"
  /\ LET b == Begin(Self, call[thread].m, call[thread].t)
     IN /\ Becomes(b.c)
        /\ IF b.raised
             THEN /\ pc' = [pc EXCEPT ![thread] = "idle"]
                  /\ call' = [call EXCEPT ![thread] = NoCall]
                  /\ ret' = [op |-> call[thread].m.op, key |-> call[thread].m.key,
                             val |-> None, raised |-> TRUE, thread |-> thread]
                  /\ UNCHANGED lock
             ELSE /\ pc' = [pc EXCEPT ![thread] = "finish"]
                  /\ call' = [call EXCEPT ![thread].local = b.local]
                  /\ UNCHANGED <<lock, ret>>
  /\ UNCHANGED <<now, obs, budget, recency, serial>>

\* The thread runs the first statements of the block; an exception leaves
\* the block, which releases the lock.
begin(thread) ==
  /\ pc[thread] = "begin"
  /\ LET b == Begin(Self, call[thread].m, call[thread].t)
     IN /\ Becomes(b.c)
        /\ IF b.raised
             THEN /\ lock' = NoThread
                  /\ pc' = [pc EXCEPT ![thread] = "idle"]
                  /\ call' = [call EXCEPT ![thread] = NoCall]
                  /\ ret' = [op |-> call[thread].m.op, key |-> call[thread].m.key,
                             val |-> None, raised |-> TRUE, thread |-> thread]
             ELSE /\ pc' = [pc EXCEPT ![thread] = "finish"]
                  /\ call' = [call EXCEPT ![thread].local = b.local]
                  /\ UNCHANGED <<lock, ret>>
  /\ UNCHANGED <<now, obs, budget, recency, serial>>

\* The thread runs the rest of the block and returns, releasing the lock.
finish(thread) ==
  /\ pc[thread] = "finish"
  /\ LET r == Finish(Self, call[thread].m, call[thread].local, call[thread].t)
     IN /\ Becomes(r.c)
        /\ ret' = [op |-> call[thread].m.op, key |-> call[thread].m.key,
                   val |-> r.val, raised |-> r.raised, thread |-> thread]
  /\ lock' = NoThread
  /\ pc' = [pc EXCEPT ![thread] = "idle"]
  /\ call' = [call EXCEPT ![thread] = NoCall]
  /\ UNCHANGED <<now, obs, budget, recency, serial>>

NextConc ==
  \/ Tick
  \/ \E thread \in Threads, m \in Calls : invoke(thread, m)
  \/ \E thread \in Threads : acquire(thread)
  \/ \E thread \in Threads : begin(thread)
  \/ \E thread \in Threads : finish(thread)

SpecConc == InitConc /\ [][NextConc]_vars

(***************************************************************************)
(* Properties of the cache under concurrent calls.                         *)
(***************************************************************************)
\* The threads that are inside a `with self._lock:` block.
InBlock == {thread \in Threads : pc[thread] \in {"begin", "finish"}}

\* C9: whatever the interleaving of the threads' get, set, delete, clear,
\* get_stats, force_cleanup and optimize calls, one thread at most is inside
\* a block, and it holds the lock; the state a thread finds when it enters
\* its block, and the state whenever no thread is in a block, is the one the
\* whole calls so far leave when run one after the other in the order the
\* lock was acquired; no other thread changes the state while a thread is in
\* its block; and every call returns what it returns in that sequential run.
C9_Atomicity ==
  [][/\ InBlock \subseteq {lock}
     /\ lock' = NoThread => Post = serial'.c
     /\ \A thread \in Threads :
          /\ acquire(thread) => Self = serial.c
          /\ begin(thread) =>
               /\ lock = thread
               /\ Self = serial.before
               /\ call'[thread] = NoCall =>
                    ret'.raised = serial.raised[thread] /\ Post = serial.c
          /\ finish(thread) =>
               /\ lock = thread
               /\ Self = Begin(serial.before, call[thread].m, call[thread].t).c
               /\ ret'.val = serial.val[thread]
               /\ ret'.raised = serial.raised[thread]
               /\ Post = serial.c]_vars

\* A thread is in the middle of a set() that has evicted an entry and not yet
\* stored its own, while the other thread waits for the lock with a get().
C9_Witness ==
  \E thread \in Threads, other \in Threads :
    /\ pc[thread] = "finish"
    /\ call[thread].m.op = "set"
    /\ Len(cache) = 0
    /\ stats.evictions = 1
    /\ pc[other] = "acquire"
    /\ call[other].op = "get"

(***************************************************************************)
(* Properties of set() and of the eviction it runs.                        *)
(***************************************************************************)
\* C11: a set() of a value that is by itself larger than the memory budget
\* returns True and leaves the key as the only entry of the cache, however
\* many entries the cache held.
C11_OversizedAlone ==
  [][\A key \in Keys, value \in Values, ttl \in TTLs :
       (set(key, value, ttl) /\ CalculateSize(value).val > MaxMemoryBytes) =>
         /\ ret'.val = Bool(TRUE)
         /\ CacheKeys(cache') = {key}
         /\ Len(cache') = 1]_vars

\* C12: a set(key, value, ttl) with ttl > 0 returns True whatever the value
\* and the state of the cache, and leaves the key stored with that value as
\* the most recently used entry, so that a get(key) made at once is a hit
\* that returns the value.
C12_SetAlwaysSucceeds ==
  [][\A key \in Keys \cup FacadeKeys, value \in Values \cup DirectValues, ttl \in TTLs :
       (set(key, value, ttl) /\ ttl > 0) =>
         /\ ~ret'.raised
         /\ ret'.val = Bool(TRUE)
         /\ Len(cache') >= 1
         /\ cache'[Len(cache')] = CacheEntry(key, value, ttl, now)
         /\ CacheGet(Post, key, now).val = Val(value)]_vars

(***************************************************************************)
(* Chat history cached by session, and its invalidation.                   *)
(***************************************************************************)
\* str.replace("*", "")
RemoveStars(s) == LET NotStar(token) == token # "*" IN SelectSeq(s, NotStar)

\* sub in s, for strings.
Contains(s, sub) ==
  \E i \in 0..(Len(s) - Len(sub)) : SubSeq(s, i + 1, i + Len(sub)) = sub

\* f"chat_history:*:session:{session_id}:*:*"
SessionHistoryPattern(session_id) ==
  <<"chat_history", ":", "*", ":", "session", ":">> \o Str(session_id)
    \o <<":", "*", ":", "*">>

\* The keys of self.cache._cache.keys() that contain the text, in the order
\* of the dictionary.
KeysContaining(entries, text) ==
  LET Match(e) == Contains(e.key, text)
      matching == SelectSeq(entries, Match)
  IN [i \in 1..Len(matching) |-> matching[i].key]

\* CacheManager.invalidate_session_history
InvalidateSessionHistory(c, session_id) ==
  Returns(DeleteAll(c, KeysContaining(c.cache,
                                      RemoveStars(SessionHistoryPattern(session_id)))),
          None)

\* cache_manager.invalidate_session_history(session_id)
invalidate_session_history(session_id) ==
  /\ Invalidate("invalidate_session_history", SessionHistoryPattern(session_id),
               InvalidateSessionHistory(Self, session_id))
  /\ UNCHANGED <<now, obs, budget, threads>>

\* The chat sessions explored, next to the history kept without a session,
\* and how many calls of get_chat_history and set_chat_history are explored.
SessionIds == {5, 51}
MaxSessionOps == 3

InitSession ==
  /\ now = 0
  /\ cache = NewCache(0).cache
  /\ stats = NewCache(0).stats
  /\ last_cleanup = NewCache(0).last_cleanup
  /\ ret = [op |-> "init", key |-> <<>>, val |-> None, raised |-> FALSE]
  /\ obs = [gets |-> 0, values |-> 0, nones |-> 0]
  /\ recency = <<>>
  /\ budget = MaxSessionOps
  /\ NoCalls(NewCache(0))

NextSession ==
  \/ Tick
  \/ \E u \in Users, skip \in Skips, s \in SessionIds \cup {NoSession} :
       get_chat_history(u, skip, PageLimit, s)
  \/ \E u \in Users, skip \in Skips, s \in SessionIds \cup {NoSession},
        messages \in Responses, ttl \in TTLs :
       set_chat_history(u, skip, PageLimit, messages, ttl, s)
  \/ \E u \in Users, s \in SessionIds \cup {NoSession} : invalidate_user_history(u, s)
  \/ \E s \in SessionIds : invalidate_session_history(s)

SpecSession == InitSession /\ [][NextSession]_vars

\* f"chat_history:{user_id}:session:{session_id}:", the text every key of the
\* user's session starts with.
C13_SessionScope(user_id, session_id) ==
  <<"chat_history", ":">> \o Str(user_id) \o <<":", "session", ":">>
    \o Str(session_id) \o <<":">>

\* C13: invalidate_user_history(user_id, session_id) removes every cached page
\* of that user's session, and invalidate_session_history(session_id) every
\* cached page of that session whoever the user; both remove nothing else.
C13_SessionInvalidation ==
  [][\A s \in SessionIds :
       /\ \A u \in Users :
            invalidate_user_history(u, s) =>
              cache' = Outside(cache, {C13_SessionScope(u, s)})
       /\ invalidate_session_history(s) =>
            cache' = Outside(cache, {C13_SessionScope(u, s) : u \in Users})]_vars

(***************************************************************************)
(* Properties of the statistics and of get().                              *)
(***************************************************************************)
\* C14: the total_entries that get_stats() reports is the number of entries
\* stored, and the memory it reports is the sum of their size_bytes, whatever
\* operations removed entries before.
C14_EntryCountStatistic ==
  ret.op = "get_stats" =>
    /\ ret.val.total_entries = Len(cache)
    /\ ret.val.current_memory = SumSizes(cache)

(***************************************************************************)
(* AIChatService.simple_chat (backend/app/services/ai_chat.py) and the LLM *)
(* response cache.  Of the method, what it does with cache_manager is      *)
(* kept: the lookup before the response is generated and the store after   *)
(* it.  The message is the sanitized one, and the response is the          *)
(* generated text after moderation ("" when nothing was generated).        *)
(***************************************************************************)
\* user_id = None, and every falsy user id.
NoUser == 0

\* The ttl set_llm_response takes when it is called without one.
LlmResponseTtl == 3600

\* f"{sanitized_message}:search:{search_web}"
SearchCacheKey(sanitized_message, search_web) ==
  sanitized_message \o ":search:" \o (IF search_web THEN "True" ELSE "False")

\* simple_chat, from `cached_response = None` to the lookup: the state of the
\* cache, cached_response, and the calls made of cache_manager.  (A cached
\* response is a non-empty string, which is truthy.)
SimpleChatLookup(c, sanitized_message, model_name, user_id, session_id, search_web, images, t) ==
  IF user_id # NoUser /\ ~(session_id # NoSession \/ images)
    THEN [r |-> GetLlmResponse(c, user_id, SearchCacheKey(sanitized_message, search_web),
                               model_name, t),
          calls |-> <<"get_llm_response">>]
    ELSE [r |-> Returns(c, None), calls |-> <<>>]

\* simple_chat: a cached response is streamed back and the method returns;
\* else the response is generated and, if not empty, stored for a user that
\* has no session.
SimpleChat(c, sanitized_message, model_name, user_id, session_id, search_web, images, full_response, t) ==
  LET look == SimpleChatLookup(c, sanitized_message, model_name, user_id, session_id,
                               search_web, images, t)
  IN IF look.r.val # None
       THEN [c |-> look.r.c, val |-> look.r.val, raised |-> FALSE, calls |-> look.calls,
             cached |-> TRUE]
       ELSE IF full_response # "" /\ user_id # NoUser /\ session_id = NoSession
              THEN [c |-> SetLlmResponse(look.r.c, user_id,
                                         SearchCacheKey(sanitized_message, search_web),
                                         model_name, full_response, LlmResponseTtl, t).c,
                    val |-> Val(full_response), raised |-> FALSE,
                    calls |-> look.calls \o <<"set_llm_response">>, cached |-> FALSE]
              ELSE [c |-> look.r.c, val |-> Val(full_response), raised |-> FALSE,
                    calls |-> look.calls, cached |-> FALSE]

\* The requests explored: with and without a user, a session, images and web
\* search; the response generated, if any; and how many cache operations.
ChatUsers == Users \cup {NoUser}
ChatSessions == {NoSession, 5}
FullResponses == {"", "v100k"}
MaxChatOps == 3

InitChat ==
  /\ now = 0
  /\ cache = NewCache(0).cache
  /\ stats = NewCache(0).stats
  /\ last_cleanup = NewCache(0).last_cleanup
  /\ ret = [op |-> "init", key |-> <<>>, val |-> None, raised |-> FALSE]
  /\ obs = [gets |-> 0, values |-> 0, nones |-> 0]
  /\ recency = <<>>
  /\ budget = MaxChatOps
  /\ NoCalls(NewCache(0))

\* ai_service.simple_chat(message, model_name, user_id, db, session_id,
\* search_web, images), run to the end of the stream.
simple_chat(sanitized_message, model_name, user_id, session_id, search_web, images, full_response) ==
  /\ stats.total_operations < budget
  /\ LET r == SimpleChat(Self, sanitized_message, model_name, user_id, session_id,
                         search_web, images, full_response, now)
         key == LlmResponseKey(user_id, SearchCacheKey(sanitized_message, search_web),
                               model_name)
         looked == Len(r.calls) >= 1 /\ r.calls[1] = "get_llm_response"
         hit == r.cached
     IN /\ Becomes(r.c)
        /\ ret' = [op |-> "simple_chat", key |-> key, val |-> r.val,
                   raised |-> r.raised, calls |-> r.calls]
        /\ obs' = IF looked
                    THEN [gets |-> obs.gets + 1,
                          values |-> obs.values + (IF hit THEN 1 ELSE 0),
                          nones |-> obs.nones + (IF hit THEN 0 ELSE 1)]
                    ELSE obs
        /\ recency' = Recent(IF hit THEN <<Known(key)>>
                                    ELSE StoredBy(r.c, key, full_response,
                                                  LlmResponseTtl, now),
                              CacheKeys(r.c.cache))
  /\ UNCHANGED <<now, budget, threads>>

NextChat ==
  \/ Tick
  \/ \E sanitized_message \in Contents, model_name \in Models, user_id \in ChatUsers,
        session_id \in ChatSessions, search_web \in BOOLEAN, images \in BOOLEAN,
        full_response \in FullResponses :
       simple_chat(sanitized_message, model_name, user_id, session_id, search_web,
                   images, full_response)

SpecChat == InitChat /\ [][NextChat]_vars

\* C15: a simple_chat call with search_web=True for a user, without session
\* and without images, calls neither get_llm_response before the response is
\* generated nor set_llm_response after.
C15_WebSearchBypassesCache ==
  [][\A sanitized_message \in Contents, model_name \in Models, user_id \in Users,
        full_response \in FullResponses :
       simple_chat(sanitized_message, model_name, user_id, NoSession, TRUE, FALSE,
                   full_response) => ret'.calls = <<>>]_vars

(***************************************************************************)
(* The same cache, taken up after a short history that leaves entries of   *)
(* different ages in an order that is not the order of their ages:         *)
(* set(FillKey(1)), ..., set(FillKey(max_entries)) at times that do not    *)
(* decrease, then possibly a get() of one of these keys.  From there on    *)
(* get() and set() are explored for MaxAgedOps calls.                      *)
(***************************************************************************)
MaxAgedOps == 1

\* The times of the history: the clock does not go back.
AgedTimes ==
  {times \in [1..max_entries -> 0..1] :
     \A i \in 1..(max_entries - 1) : times[i] <= times[i + 1]}
AgedValues == [1..max_entries -> {"v100k", "v600k"}]

\* The state of the cache after set(FillKey(i), values[i], ttl) at times[i],
\* for i = 1, ..., n.
RECURSIVE AgedCache(_, _, _, _)
AgedCache(n, values, times, ttl) ==
  IF n = 0
    THEN NewCache(0)
    ELSE CacheSet(AgedCache(n - 1, values, times, ttl), FillKey(n), values[n], ttl,
                  times[n]).c

InitAged ==
  \E values \in AgedValues, times \in AgedTimes, ttl \in TTLs, touched \in 0..max_entries :
    LET sets == AgedCache(max_entries, values, times, ttl)
        last == IF touched = 0
                  THEN Returns(sets, Bool(TRUE))
                  ELSE CacheGet(sets, FillKey(touched), times[max_entries])
        c == last.c
    IN /\ now = times[max_entries]
       /\ cache = c.cache
       /\ stats = c.stats
       /\ last_cleanup = c.last_cleanup
       /\ ret = IF touched = 0
                  THEN Called("set", FillKey(max_entries), last)
                  ELSE Called("get", FillKey(touched), last)
       /\ obs = [gets |-> c.stats.hits + c.stats.misses, values |-> c.stats.hits,
                 nones |-> c.stats.misses]
       /\ recency =
            LET sets_of == [i \in 1..max_entries |->
                              Stored(FillKey(i), values[i], ttl, times[i])]
                Others(r) == r.key # FillKey(touched)
                Kept(r) == r.key \in CacheKeys(c.cache)
            IN SelectSeq(IF touched # 0 /\ last.val # None
                           THEN SelectSeq(sets_of, Others) \o <<sets_of[touched]>>
                           ELSE sets_of,
                         Kept)
       /\ budget = c.stats.total_operations + MaxAgedOps
       /\ NoCalls(NewCache(0))

NextAged ==
  \/ Tick
  \/ \E key \in Keys : get(key)
  \/ \E key \in Keys, value \in Values, ttl \in TTLs : set(key, value, ttl)

SpecAged == InitAged /\ [][NextAged]_vars

(***************************************************************************)
(* Properties of eviction in a cache whose entries have different ages.    *)
(***************************************************************************)
\* The entries a step removes, the previous entry of `key` apart.
Removed(key) ==
  {e \in Entries(cache) : e.key # key /\ e.key \notin CacheKeys(cache')}

\* C16: within one set() call every expired entry is removed before any
\* entry that is not expired: the entries the call removes are the ones
\* _evict_entries takes, in an order where no expired entry comes after one
\* that is not expired, and when the call has removed an entry that was not
\* expired no expired entry is left in the cache.
C16_ExpiredFirst ==
  [][\A key \in Keys, value \in Values, ttl \in TTLs :
       (set(key, value, ttl) /\ Removed(key) # {}) =>
         LET order == EvictionOrder(Self, CalculateSize(value).val, now)
         IN /\ Removed(key) = {e \in Entries(order) : e.key # key}
            /\ \A i, j \in 1..Len(order) :
                 (i < j /\ IsExpired(order[j], now)) => IsExpired(order[i], now)
            /\ (\E e \in Removed(key) : ~IsExpired(e, now)) =>
                 (\A e \in Entries(cache) :
                    (IsExpired(e, now) /\ e.key # key) => e \in Removed(key))]_vars

\* At time 2 a set() of a new key has removed the entries stored at time 0,
\* which were expired, and kept the one stored at time 1, which was not.
C16_Witness ==
  /\ ret.op = "set"
  /\ ret.key = NewKey
  /\ now = 2
  /\ stats.total_operations = max_entries + 1
  /\ stats.evictions = max_entries - 1
  /\ CacheKeys(cache) = {FillKey(max_entries), NewKey}
  /\ EntryOf(cache, FillKey(max_entries)).created_at = 1
  /\ EntryOf(cache, FillKey(max_entries)).value = "v100k"
  /\ EntryOf(cache, NewKey).created_at = 2
  /\ EntryOf(cache, NewKey).value = "v100k"


\* The entries that are left once the expired ones are removed, the previous
\* entry of `key` apart, have room for `value` within both budgets.
FitsAfterExpiry(key, value) ==
  LET live == DelKey(NotExpired(cache, now), key)
  IN /\ Len(live) + 1 <= max_entries
     /\ SumSizes(live) + CalculateSize(value).val <= MaxMemoryBytes

\* C17: a set() evicts no entry that is not expired when, the expired
\* entries removed, the new entry fits within both max_entries and the
\* memory budget.
C17_LruOnlyIfOverBudget ==
  [][\A key \in Keys, value \in Values, ttl \in TTLs :
       (set(key, value, ttl) /\ FitsAfterExpiry(key, value)) =>
         \A e \in Removed(key) : IsExpired(e, now)]_vars

\* The stored entries that are not expired, from the least to the most
\* recently used one (the one whose last set() or get() hit is the latest).
LiveByRecency ==
  LET Live(r) == ~IsExpired(EntryOf(cache, r.key), now)
      live == SelectSeq(recency, Live)
  IN [i \in 1..Len(live) |-> EntryOf(cache, live[i].key)]

\* set(key, value) runs the eviction: the cache is full or has no room left
\* for the value.
Evicting(value) ==
  \/ Len(cache) >= max_entries
  \/ SumSizes(cache) + CalculateSize(value).val > MaxMemoryBytes

\* The step has evicted exactly the n least recently used live entries: the
\* others are stored as they were and in the same order, before the new one.
C18_Run(key, n) ==
  LET live == LiveByRecency
  IN DelKey(cache', key) = DelKey(SubSeq(live, n + 1, Len(live)), key)

\* After n evictions the cache is empty, or it is below max_entries and the
\* sizes freed, of expired and evicted entries, reach the size of the value.
C18_Done(value, n) ==
  LET live == LiveByRecency
      freed == SumSizes(OnlyExpired(cache, now)) + SumSizes(SubSeq(live, 1, n))
  IN \/ Len(live) - n = 0
     \/ Len(live) - n < max_entries /\ freed >= CalculateSize(value).val

\* The n-th eviction has brought the entries removed by the call, expired
\* ones included, above the safety limit.
C18_Capped(n) == n >= 1 /\ Len(OnlyExpired(cache, now)) + n > SafetyLimit

\* C18 as claimed: the live entries a set() evicts are the least recently
\* used ones, up to the first point where the cache is below max_entries
\* and the freed sizes reach the size of the new entry, or the cache is empty.
C18_RunToBudget ==
  [][\A key \in Keys, value \in Values, ttl \in TTLs :
       (set(key, value, ttl) /\ Evicting(value)) =>
         \E n \in 0..Len(LiveByRecency) :
           /\ C18_Run(key, n)
           /\ C18_Done(value, n)
           /\ \A m \in 0..(n - 1) : ~C18_Done(value, m)]_vars

\* C18, amended: the live entries a set() evicts are the least recently used
\* ones, up to the first point where the cache is below max_entries and the
\* freed sizes reach the size of the new entry, or the cache is empty, or an
\* eviction has brought the number of entries removed by the call above the
\* safety limit.
C18_RunToBudgetOrLimit ==
  [][\A key \in Keys, value \in Values, ttl \in TTLs :
       (set(key, value, ttl) /\ Evicting(value)) =>
         \E n \in 0..Len(LiveByRecency) :
           /\ C18_Run(key, n)
           /\ C18_Done(value, n) \/ C18_Capped(n)
           /\ \A m \in 0..(n - 1) : ~(C18_Done(value, m) \/ C18_Capped(m))]_vars

\* A get() hit has made the first stored key the most recently used one: the
\* set() of a new key into the full cache has evicted the second key alone,
\* and the others are stored in the order of their last use.
C18_Witness ==
  /\ ret.op = "set"
  /\ ret.key = NewKey
  /\ stats.total_operations = max_entries + 2
  /\ stats.evictions = 1
  /\ Len(cache) = max_entries
  /\ cache[Len(cache)].key = NewKey
  /\ cache[Len(cache) - 1].key = FillKey(1)
  /\ cache[Len(cache) - 1].access_count = 2
  /\ FillKey(2) \notin CacheKeys(cache)
  /\ \A i \in 1..Len(cache) : ~IsExpired(cache[i], now)


\* C19: a set() whose resulting cache fits both budgets (the stored entries,
\* the previous entry of the key apart, and the new entry are at most
\* max_entries and add up to at most the memory budget) removes no entry
\* other than the previous entry of the key, also when it overwrites a key
\* of a cache that holds max_entries entries.
C19_EvictionTrigger ==
  [][\A key \in Keys, value \in Values, ttl \in TTLs :
       (/\ set(key, value, ttl)
        /\ Len(DelKey(cache, key)) + 1 <= max_entries
        /\ SumSizes(DelKey(cache, key)) + CalculateSize(value).val <= MaxMemoryBytes)
         => Removed(key) = {}]_vars


(***************************************************************************)
(* Properties of get().                                                    *)
(***************************************************************************)
\* What get(key) does to the entry of `key` and to the statistics, the other
\* entries being left as `others`:
\*   a hit counts the access, refreshes the time of the last access, moves
\*   the entry behind all others, returns its value and counts a hit;
\*   an expired entry is deleted, and a miss is counted, not a hit;
\*   an absent key leaves the entries as they are.
C20_Effects(key, others) ==
  IF key \notin CacheKeys(cache)
    THEN /\ cache' = others
         /\ ret'.val = None
    ELSE LET entry == EntryOf(cache, key)
         IN IF IsExpired(entry, now)
              THEN /\ key \notin CacheKeys(cache')
                   /\ ret'.val = None
                   /\ stats'.misses = stats.misses + 1
                   /\ stats'.hits = stats.hits
              ELSE /\ cache' = others \o
                          <<[entry EXCEPT !.access_count = entry.access_count + 1,
                                          !.last_accessed = now]>>
                   /\ ret'.val = Val(entry.value)
                   /\ stats'.hits = stats.hits + 1
                   /\ stats'.misses = stats.misses

\* C20 as claimed: a get(key) has these effects and leaves every entry
\* other than the one of `key` stored as it was, in the same order.
C20_GetLeavesOthers ==
  [][\A key \in Keys : get(key) => C20_Effects(key, DelKey(cache, key))]_vars

\* The other entries after the sweep get() starts with when
\* cleanup_interval_seconds have passed since the last one.
C20_AfterSweep(key) ==
  DelKey(IF now - last_cleanup >= cleanup_interval_seconds
           THEN NotExpired(cache, now)
           ELSE cache,
         key)

\* C20, amended: a get(key) has these effects and leaves every entry other
\* than the one of `key` stored as it was, in the same order, apart from the
\* expired entries, which it removes when cleanup_interval_seconds have
\* passed since the last sweep.
C20_GetEffects ==
  [][\A key \in Keys : get(key) => C20_Effects(key, C20_AfterSweep(key))]_vars

\* A get() hit that began with a sweep: the entry read is the most recently
\* used one, with its second access counted, and an expired entry is gone
\* (the entry counter, which the sweep does not refresh, still counts it).
C20_Witness ==
  /\ ret.op = "get"
  /\ ret.val # None
  /\ stats.cleanups = 1
  /\ last_cleanup = now
  /\ Len(cache) >= 1
  /\ cache[Len(cache)].key = ret.key
  /\ cache[Len(cache)].access_count = 2
  /\ cache[Len(cache)].last_accessed = now
  /\ Len(cache) < stats.total_entries


(***************************************************************************)
(* Properties of the sweeps, clear() and the eviction counter.             *)
(***************************************************************************)
\* C21: a get() issued when cleanup_interval_seconds or more have passed
\* since the last sweep leaves exactly the entries that are not expired,
\* counts one sweep and restarts the interval; a get() issued earlier
\* removes nothing but the entry of its key, and that only if it is expired,
\* and leaves the sweep counter and the interval alone.
C21_PeriodicSweep ==
  [][\A key \in Keys :
       get(key) =>
         IF now - last_cleanup >= cleanup_interval_seconds
           THEN /\ CacheKeys(cache') = CacheKeys(NotExpired(cache, now))
                /\ \A e \in Entries(cache') : ~IsExpired(e, now)
                /\ stats'.cleanups = stats.cleanups + 1
                /\ last_cleanup' = now
           ELSE /\ CacheKeys(cache') =
                     CacheKeys(cache) \ {k \in {key} : k \in CacheKeys(cache)
                                           /\ IsExpired(EntryOf(cache, k), now)}
                /\ stats'.cleanups = stats.cleanups
                /\ last_cleanup' = last_cleanup]_vars

\* A get() of a key that is not stored has swept the cache: it is a miss,
\* the sweep is counted and timed, and entries are gone that no expired
\* branch of get() removed (the entry counter still counts them).
C21_Witness ==
  /\ ret.op = "get"
  /\ ret.key = NewKey
  /\ ret.val = None
  /\ stats.cleanups = 1
  /\ last_cleanup = now
  /\ now >= cleanup_interval_seconds
  /\ Len(cache) < stats.total_entries
  /\ \A i \in 1..Len(cache) : ~IsExpired(cache[i], now)


\* C22: whatever the time of the last sweep, force_cleanup() leaves the
\* entries that are not expired, as they were and in the same order, and no
\* other; it reports as cleaned the number of entries that were expired and
\* as remaining the number of entries left, which add up to the number of
\* entries before the call.
C22_ForceCleanup ==
  [][force_cleanup =>
       LET Live(e) == ~IsExpired(e, now)
           expired == {i \in 1..Len(cache) : IsExpired(cache[i], now)}
       IN /\ cache' = SelectSeq(cache, Live)
          /\ \A e \in Entries(cache') : ~IsExpired(e, now)
          /\ ret'.val.cleaned_entries = Cardinality(expired)
          /\ ret'.val.remaining_entries = Len(cache')
          /\ ret'.val.cleaned_entries + ret'.val.remaining_entries = Len(cache)
          /\ ~ret'.raised]_vars

\* force_cleanup() has removed an expired entry and kept another one, one
\* second after a sweep of get(), before the interval has elapsed again.
C22_Witness ==
  /\ ret.op = "force_cleanup"
  /\ ret.val.cleaned_entries >= 1
  /\ ret.val.remaining_entries >= 1
  /\ stats.cleanups = 2
  /\ last_cleanup > 0
  /\ now - last_cleanup < cleanup_interval_seconds


\* C23: clear() leaves no entry, and a get_stats() that follows it reports
\* no entry and no memory in use; from then on a key is stored again only by
\* a set() of that key, and a get() of a key that is not stored is a miss.
C23_Clear ==
  [][/\ clear =>
          /\ cache' = <<>>
          /\ ~ret'.raised
          /\ CacheGetStats(Post).val.total_entries = 0
          /\ CacheGetStats(Post).val.entries = 0
          /\ CacheGetStats(Post).val.current_memory = 0
          /\ \A key \in Keys : CacheGet(Post, key, now).val = None
     /\ \A key \in Keys :
          /\ (key \notin CacheKeys(cache) /\ key \in CacheKeys(cache')) =>
               \E value \in Values, ttl \in TTLs : set(key, value, ttl)
          /\ (get(key) /\ key \notin CacheKeys(cache)) =>
               (ret'.val = None /\ stats'.misses = stats.misses + 1)]_vars

\* clear() has emptied a cache after sets and a get() hit.
C23_Witness ==
  /\ ret.op = "clear"
  /\ cache = <<>>
  /\ stats.total_entries = 0
  /\ stats.hits >= 1
  /\ stats.total_operations = MaxOps


\* C24: a set() removes at most SafetyLimit entries through the eviction
\* loop, that is, entries that are not expired.
C24_SafetyCap ==
  [][\A key \in Keys, value \in Values, ttl \in TTLs :
       set(key, value, ttl) =>
         Cardinality({e \in Removed(key) : ~IsExpired(e, now)}) <= SafetyLimit]_vars


\* C25: the evictions counter grows in a set() by the number of entries
\* that were not expired and that the call removed (the previous entry of
\* the key, which the call replaces in any case, may or may not be among
\* the ones counted), and in no other operation.
C25_EvictionCounter ==
  [][/\ \A key \in Keys, value \in Values, ttl \in TTLs :
          set(key, value, ttl) =>
            LET live == Cardinality({e \in Removed(key) : ~IsExpired(e, now)})
                own == IF key \in CacheKeys(cache) THEN 1 ELSE 0
            IN stats'.evictions - stats.evictions \in live..(live + own)
     /\ (\A key \in Keys, value \in Values, ttl \in TTLs : ~set(key, value, ttl)) =>
          stats'.evictions = stats.evictions]_vars


(***************************************************************************)
(* The cache with entries of different ages again, where the one call      *)
(* explored can be a set() with another ttl or with a value whose size     *)
(* cannot be computed.                                                     *)
(***************************************************************************)
OverwriteTtls == TTLs \cup {2}
OverwriteValues == Values \cup {"vbroken"}

NextOverwrite ==
  \/ Tick
  \/ \E key \in Keys : get(key)
  \/ \E key \in Keys, value \in OverwriteValues, ttl \in OverwriteTtls :
       set(key, value, ttl)

SpecOverwrite == InitAged /\ [][NextOverwrite]_vars

\* C26: a set(key, value, ttl) of a stored key that returns leaves one entry
\* for the key, a new one: it has the value, the size computed from the
\* value, the ttl, the time of the call as its creation and last access and
\* an access count of 1, and the cache has no more entries than before.  An
\* entry that no such set() replaces keeps its value, size, ttl and time of
\* creation for as long as it is stored (a set() that raises replaces
\* nothing).
C26_Overwrite ==
  [][/\ \A key \in Keys, value \in OverwriteValues, ttl \in OverwriteTtls :
          (set(key, value, ttl) /\ key \in CacheKeys(cache) /\ ~ret'.raised) =>
            /\ Cardinality({i \in 1..Len(cache') : cache'[i].key = key}) = 1
            /\ EntryOf(cache', key) =
                 [key |-> key, value |-> value, ttl |-> ttl, created_at |-> now,
                  last_accessed |-> now, access_count |-> 1,
                  size_bytes |-> CalculateSize(value).val]
            /\ Len(cache') <= Len(cache)
     /\ \A i \in 1..Len(cache), j \in 1..Len(cache') :
          cache[i].key = cache'[j].key =>
            \/ \E value \in OverwriteValues, ttl \in OverwriteTtls :
                 set(cache[i].key, value, ttl) /\ ~ret'.raised
            \/ /\ cache'[j].size_bytes = cache[i].size_bytes
               /\ cache'[j].value = cache[i].value
               /\ cache'[j].ttl = cache[i].ttl
               /\ cache'[j].created_at = cache[i].created_at]_vars

\* At time 2, in a cache where a get() has hit, a set() with a ttl of 2 has
\* replaced the entry of the first stored key by a new one.
C26_Witness ==
  /\ ret.op = "set"
  /\ ret.key = FillKey(1)
  /\ ~ret.raised
  /\ now = 2
  /\ stats.hits = 1
  /\ stats.total_operations = max_entries + 2
  /\ EntryOf(cache, FillKey(1)).ttl = 2
  /\ EntryOf(cache, FillKey(1)).created_at = 2
  /\ EntryOf(cache, FillKey(1)).value = "v600k"
  /\ EntryOf(cache, FillKey(1)).access_count = 1


(***************************************************************************)
(* The facade's invalidations next to another caller.  An invalidation     *)
(* builds keys_to_delete with a list comprehension over                    *)
(* self.cache._cache.keys(), which it reads without the lock, and then     *)
(* calls cache.delete for each key found.  The comprehension is taken one  *)
(* key at a time; the other thread's get(), set() and delete(), each one   *)
(* `with self._lock:` block, come in between as whole calls.  The iterator *)
(* of an OrderedDict raises RuntimeError from its next step when the       *)
(* dictionary has been mutated since the iterator was made, unless it has  *)
(* already handed out the last key; the except clause of the invalidation  *)
(* logs the exception and the method returns.                              *)
(***************************************************************************)
\* The invalidations invoked in all, and the get() and set() calls of the
\* other thread.
MaxScans == 1
MaxScanOps == 1

\* The thread that invalidates.
Scanner == 1

\* What tells a mutation of the dictionary: its entries, and the number of
\* set() calls so far (a set() that stores the entry that is already the
\* last one leaves the entries as they are, but deletes and inserts).
OdState ==
  [cache |-> cache, sets |-> stats.total_operations - stats.hits - stats.misses]

\* The keys of the dictionary, in order.
OdKeys(entries) == [i \in 1..Len(entries) |-> entries[i].key]

\* The invalidations of CacheManager and the prefix each one scans for.
Invalidations ==
  {[op |-> "invalidate_user_history", prefix |-> UserHistoryPrefix(u, NoSession)] :
     u \in Users}
    \cup {[op |-> "invalidate_llm_responses_for_user", prefix |-> LlmResponsePrefix(u)] :
            u \in Users}

\* While an invalidation is under way the other thread uses the keys it does
\* not scan for.
OtherMayUse(key) ==
  pc[Scanner] # "idle" => ~StartsWith(key, call[Scanner].prefix)

\* The method is called: iter(self.cache._cache.keys()).
start_invalidation(m) ==
  /\ pc[Scanner] = "idle"
  /\ serial.calls < MaxScans
  /\ pc' = [pc EXCEPT ![Scanner] = "scan"]
  /\ call' = [call EXCEPT ![Scanner] =
                [op |-> m.op, prefix |-> m.prefix, keys |-> OdKeys(cache), pos |-> 1,
                 seen |-> OdState, keys_to_delete |-> <<>>]]
  /\ serial' = [serial EXCEPT !.calls = @ + 1]
  /\ UNCHANGED <<cache, stats, last_cleanup, now, ret, obs, budget, recency, lock>>

\* What the invalidation leaves in ret when it returns: whether the except
\* clause ended it, and the keys with its prefix that were stored when it
\* started.
Invalidated(it, aborted) ==
  LET Match(k) == StartsWith(k, it.prefix)
  IN [op |-> it.op, key |-> it.prefix, val |-> None, raised |-> FALSE,
      aborted |-> aborted, matching |-> SelectSeq(it.keys, Match)]

\* One step of [k for k in self.cache._cache.keys() if k.startswith(cache_key)].
scan_next ==
  /\ pc[Scanner] = "scan"
  /\ LET it == call[Scanner]
     IN IF it.pos > Len(it.keys)
          THEN /\ pc' = [pc EXCEPT ![Scanner] = "delete"]
               /\ UNCHANGED <<call, ret>>
          ELSE IF OdState # it.seen
                 THEN /\ pc' = [pc EXCEPT ![Scanner] = "idle"]
                      /\ call' = [call EXCEPT ![Scanner] = NoCall]
                      /\ ret' = Invalidated(it, TRUE)
                 ELSE /\ call' = [call EXCEPT ![Scanner] =
                                    [it EXCEPT !.pos = it.pos + 1,
                                               !.keys_to_delete =
                                                 IF StartsWith(it.keys[it.pos], it.prefix)
                                                   THEN @ \o <<it.keys[it.pos]>>
                                                   ELSE @]]
                      /\ UNCHANGED <<pc, ret>>
  /\ UNCHANGED <<cache, stats, last_cleanup, now, obs, budget, recency, lock, serial>>

\* One step of `for key in keys_to_delete: self.cache.delete(key)`, or the
\* return after the last one.
delete_next ==
  /\ pc[Scanner] = "delete"
  /\ LET it == call[Scanner]
     IN IF it.keys_to_delete = <<>>
          THEN /\ pc' = [pc EXCEPT ![Scanner] = "idle"]
               /\ call' = [call EXCEPT ![Scanner] = NoCall]
               /\ ret' = Invalidated(it, FALSE)
               /\ UNCHANGED <<cache, stats, last_cleanup, recency>>
          ELSE LET r == CacheDelete(Self, Head(it.keys_to_delete))
               IN /\ Becomes(r.c)
                  /\ recency' = Recent(<<>>, CacheKeys(r.c.cache))
                  /\ call' = [call EXCEPT ![Scanner].keys_to_delete = Tail(@)]
                  /\ UNCHANGED <<pc, ret>>
  /\ UNCHANGED <<now, obs, budget, lock, serial>>

NextScan ==
  \/ Tick
  \/ \E m \in Invalidations : start_invalidation(m)
  \/ scan_next
  \/ delete_next
  \/ \E key \in Keys : OtherMayUse(key) /\ get(key)
  \/ \E key \in Keys, value \in Values, ttl \in TTLs :
       OtherMayUse(key) /\ set(key, value, ttl)
  \/ \E key \in Keys : OtherMayUse(key) /\ delete(key)

\* The filled cache, with MaxScanOps get() and set() calls left to the other
\* thread.
InitScan ==
  \E values \in FillValues, ttl \in TTLs :
    LET c == FillCache(max_entries, values, ttl)
        Kept(r) == r.key \in CacheKeys(c.cache)
    IN /\ now = 0
       /\ cache = c.cache
       /\ stats = c.stats
       /\ last_cleanup = c.last_cleanup
       /\ ret = [op |-> "set", key |-> FillKey(max_entries), val |-> Bool(TRUE),
                 raised |-> FALSE]
       /\ obs = [gets |-> 0, values |-> 0, nones |-> 0]
       /\ recency = SelectSeq([i \in 1..max_entries |->
                                  Stored(FillKey(i), values[i], ttl, 0)], Kept)
       /\ budget = max_entries + MaxScanOps
       /\ NoCalls(NewCache(0))

SpecScan == InitScan /\ [][NextScan]_vars

\* C27: an invalidation that runs next to the get, set and delete calls of
\* another thread is not ended by an exception, and when it returns no key
\* with its prefix that was stored when it started is stored any more.
C27_InvalidationCompletes ==
  [][(pc[Scanner] # "idle" /\ pc'[Scanner] = "idle") =>
       /\ ~ret'.aborted
       /\ \A i \in 1..Len(ret'.matching) : ret'.matching[i] \notin CacheKeys(cache')]_vars


(***************************************************************************)
(* The threads' calls again, with a set() whose value has no size (the     *)
(* call leaves its block by an exception) among them, and under fair       *)
(* scheduling: a thread that can go on in its block does, and a thread     *)
(* that waits for the lock gets it if the lock is free again and again.    *)
(***************************************************************************)
MaxLiveCalls == 2

LiveKeys == {PageKey(0)}
LiveValues == {"v600k", "vbroken"}

LiveCalls ==
  {[op |-> "get", key |-> key] : key \in LiveKeys}
    \cup {[op |-> "set", key |-> key, value |-> value, ttl |-> ttl] :
            key \in LiveKeys, value \in LiveValues, ttl \in TTLs}
    \cup {[op |-> "delete", key |-> key] : key \in LiveKeys}
    \cup {[op |-> op, key |-> <<>>] :
            op \in {"clear", "get_stats", "force_cleanup", "optimize"}}

InitLive ==
  /\ now = 0
  /\ cache = NewCache(0).cache
  /\ stats = NewCache(0).stats
  /\ last_cleanup = NewCache(0).last_cleanup
  /\ ret = [op |-> "init", key |-> <<>>, val |-> None, raised |-> FALSE]
  /\ obs = [gets |-> 0, values |-> 0, nones |-> 0]
  /\ recency = <<>>
  /\ budget = MaxLiveCalls
  /\ NoCalls(NewCache(0))

NextLive ==
  \/ Tick
  \/ \E thread \in Threads, m \in LiveCalls : invoke(thread, m)
  \/ \E thread \in Threads : acquire(thread)
  \/ \E thread \in Threads : begin(thread)
  \/ \E thread \in Threads : finish(thread)

Fairness ==
  \A thread \in Threads :
    /\ SF_vars(acquire(thread))
    /\ WF_vars(begin(thread))
    /\ WF_vars(finish(thread))

SpecLive == InitLive /\ [][NextLive]_vars /\ Fairness

\* C28: the lock is held by a thread only while it is inside its block (it
\* is released on every way out, a return or an exception), a thread that
\* waits for the lock does not hold it, and every call a thread has invoked
\* returns in the end.
C28_NoIndefiniteBlocking ==
  /\ [](\A thread \in Threads :
          /\ lock = thread => pc[thread] \in {"begin", "finish"}
          /\ pc[thread] \in {"begin", "finish"} => lock = thread)
  /\ \A thread \in Threads : (pc[thread] # "idle") ~> (pc[thread] = "idle")

\* A thread waits for the lock while the other one is in the block of a
\* set() that is about to raise.
C28_Witness ==
  \E thread \in Threads, other \in Threads :
    /\ pc[thread] = "acquire"
    /\ pc[other] = "begin"
    /\ lock = other
    /\ call[other].m.op = "set"
    /\ call[other].m.value = "vbroken"


(***************************************************************************)
(* The message history of one user read through the cache while it is     *)
(* written.  CRUDMessage.get_by_user (without search and session) looks   *)
(* the page up in the cache, and when it finds none (the pages here are   *)
(* not empty) queries the database and stores the page it read; create,   *)
(* update, remove and delete_by_user commit their change and then call    *)
(* invalidate_user_history.  The reader's three steps and the writer's    *)
(* two are taken one at a time.  The database holds PageBefore until the  *)
(* writer has committed and PageAfter from then on.                       *)
(***************************************************************************)
\* The calls of get_by_user in all.
MaxReads == 2

Reader == 1
Writer == 2

\* The user whose history is read and written, and the ttl set_chat_history
\* is called with (its default).
HistoryUser == 1
HistoryTtl == 300

\* The pages a query of the database gives before and after the write.
PageBefore == "v100k"
PageAfter == "v600k"

\* query.all(): the page the database holds now.
QueryAll == IF pc[Writer] = "idle" THEN PageBefore ELSE PageAfter

InitHistory ==
  /\ now = 0
  /\ cache = NewCache(0).cache
  /\ stats = NewCache(0).stats
  /\ last_cleanup = NewCache(0).last_cleanup
  /\ ret = [op |-> "init", key |-> <<>>, val |-> None, raised |-> FALSE]
  /\ obs = [gets |-> 0, values |-> 0, nones |-> 0]
  /\ recency = <<>>
  /\ budget = MaxReads
  /\ NoCalls(NewCache(0))

\* crud.message.get_by_user(db, user_id=HistoryUser, skip=skip, limit=PageLimit)
get_by_user(skip) ==
  /\ pc[Reader] = "idle"
  /\ serial.calls < budget
  /\ pc' = [pc EXCEPT ![Reader] = "lookup"]
  /\ call' = [call EXCEPT ![Reader] = [op |-> "get_by_user", skip |-> skip]]
  /\ serial' = [serial EXCEPT !.calls = @ + 1]
  /\ UNCHANGED <<cache, stats, last_cleanup, now, ret, obs, budget, recency, lock>>

\* What get_by_user returns: the page, and whether it is the cached one.
ReturnsPage(skip, page, cached) ==
  [op |-> "get_by_user", key |-> ChatHistoryKey(HistoryUser, skip, PageLimit, NoSession),
   val |-> page, raised |-> FALSE, cached |-> cached]

\* cached_messages = cache_manager.get_chat_history(...); if cached_messages:
\* return the cached page.
lookup ==
  /\ pc[Reader] = "lookup"
  /\ LET r == GetChatHistory(Self, HistoryUser, call[Reader].skip, PageLimit,
                             NoSession, now)
     IN /\ Becomes(r.c)
        /\ recency' = Recent(IF r.val # None
                               THEN <<Known(ChatHistoryKey(HistoryUser, call[Reader].skip,
                                                           PageLimit, NoSession))>>
                               ELSE <<>>,
                             CacheKeys(r.c.cache))
        /\ IF r.val # None
             THEN /\ pc' = [pc EXCEPT ![Reader] = "idle"]
                  /\ call' = [call EXCEPT ![Reader] = NoCall]
                  /\ ret' = ReturnsPage(call[Reader].skip, r.val, TRUE)
             ELSE /\ pc' = [pc EXCEPT ![Reader] = "query"]
                  /\ UNCHANGED <<call, ret>>
  /\ UNCHANGED <<now, obs, budget, lock, serial>>

\* messages = query.all()
query ==
  /\ pc[Reader] = "query"
  /\ pc' = [pc EXCEPT ![Reader] = "store"]
  /\ call' = [call EXCEPT ![Reader] =
                [op |-> "get_by_user", skip |-> call[Reader].skip, messages |-> QueryAll]]
  /\ UNCHANGED <<cache, stats, last_cleanup, now, ret, obs, budget, recency, lock, serial>>

\* cache_manager.set_chat_history(user_id, skip, limit, messages); return messages
store ==
  /\ pc[Reader] = "store"
  /\ LET m == call[Reader]
         r == SetChatHistory(Self, HistoryUser, m.skip, PageLimit, m.messages, HistoryTtl,
                             NoSession, now)
     IN /\ Becomes(r.c)
        /\ recency' = Recent(StoredBy(r.c, ChatHistoryKey(HistoryUser, m.skip, PageLimit,
                                                         NoSession),
                                      m.messages, HistoryTtl, now),
                             CacheKeys(r.c.cache))
        /\ ret' = ReturnsPage(m.skip, Val(m.messages), FALSE)
  /\ pc' = [pc EXCEPT ![Reader] = "idle"]
  /\ call' = [call EXCEPT ![Reader] = NoCall]
  /\ UNCHANGED <<now, obs, budget, lock, serial>>

\* create, update, remove or delete_by_user up to its db.commit()
commit ==
  /\ pc[Writer] = "idle"
  /\ pc' = [pc EXCEPT ![Writer] = "invalidate"]
  /\ call' = [call EXCEPT ![Writer] = [op |-> "create"]]
  /\ UNCHANGED <<cache, stats, last_cleanup, now, ret, obs, budget, recency, lock, serial>>

\* cache_manager.invalidate_user_history(user_id), and the return of the write
invalidate ==
  /\ pc[Writer] = "invalidate"
  /\ LET r == InvalidateUserHistory(Self, HistoryUser, NoSession)
     IN /\ Becomes(r.c)
        /\ recency' = Recent(<<>>, CacheKeys(r.c.cache))
  /\ pc' = [pc EXCEPT ![Writer] = "done"]
  /\ call' = [call EXCEPT ![Writer] = NoCall]
  /\ UNCHANGED <<now, ret, obs, budget, lock, serial>>

NextHistory ==
  \/ Tick
  \/ \E i \in 0..1 : get_by_user(PageLimit * i)
  \/ lookup
  \/ query
  \/ store
  \/ commit
  \/ invalidate

SpecHistory == InitHistory /\ [][NextHistory]_vars

\* C29: once the write has committed and invalidated the user's history, a
\* get_by_user that returns a page from the cache returns the page of the
\* database after the write, whatever the interleaving before.
C29_NoStaleHistory ==
  [][(lookup /\ pc[Writer] = "done" /\ pc'[Reader] = "idle") =>
       ret'.val = Val(PageAfter)]_vars

(***************************************************************************)
(* Isolation of the users of the facade.                                   *)
(***************************************************************************)
\* The keys the facade makes for each user: pages of history, with and
\* without a session, and LLM responses.
UserKeys ==
  [u \in Users |->
     {ChatHistoryKey(u, skip, PageLimit, s) :
        skip \in Skips \cup {PageLimit}, s \in Sessions \cup SessionIds}
       \cup {LlmResponseKey(u, content, model) : content \in Contents, model \in Models}]

\* No key of a user is a key of another user.
UserKeysDisjoint ==
  \A u \in Users : \A other \in Users \ {u} : UserKeys[u] \cap UserKeys[other] = {}

\* The call has read under a key of the user, and what it returns, if not
\* None, is the value the last set under that very key stored.
C30_ReadsOwn(u) ==
  /\ ret'.key \in UserKeys[u]
  /\ ret'.val # None =>
       /\ ret'.key \in RecencyKeys
       /\ ret'.val = Val(Known(ret'.key).value)

\* The entries stored under a key of another user are as they were.
C30_LeavesOthers(u) ==
  \A e \in Entries(cache) :
    (\E other \in Users \ {u} : e.key \in UserKeys[other]) => e \in Entries(cache')

\* C30: no key of a user is a key of another user (1 and 12 among them);
\* get_chat_history and get_llm_response for a user read under a key of
\* that user; and invalidate_user_history, invalidate_llm_responses_for_user
\* and invalidate_all_user_data for a user leave every entry stored under a
\* key of another user as it is.
C30_UserIsolation ==
  [][/\ UserKeysDisjoint
     /\ \A u \in Users :
          /\ \A skip \in Skips, s \in Sessions :
               (ret'.op = "get_chat_history" /\ get_chat_history(u, skip, PageLimit, s))
                 => C30_ReadsOwn(u)
          /\ \A content \in Contents, model \in Models :
               (ret'.op = "get_llm_response" /\ get_llm_response(u, content, model))
                 => C30_ReadsOwn(u)
          /\ (ret'.op = "invalidate_user_history" /\ invalidate_user_history(u, NoSession))
               => C30_LeavesOthers(u)
          /\ (ret'.op = "invalidate_llm_responses_for_user"
                /\ invalidate_llm_responses_for_user(u))
               => C30_LeavesOthers(u)
          /\ (ret'.op = "invalidate_all_user_data" /\ invalidate_all_user_data(u))
               => C30_LeavesOthers(u)]_vars

\* The LLM responses of user 1 have been invalidated and one went, while the
\* one of user 12 is still stored.
C30_Witness ==
  /\ ret.op = "invalidate_llm_responses_for_user"
  /\ ret.key = <<"llm_response", ":", "1", ":">>
  /\ ret.removed >= 1
  /\ LlmResponseKey(12, "hi", "gemini") \in CacheKeys(cache)

====
